---------------------------- MODULE Spec2Model ----------------------------
(***************************************************************************)
(* Control core of the production-agent pattern catalog: the circuit       *)
(* breaker (patterns/06-tool-validation.ts, Pattern 6.2), the subsumption  *)
(* layers and the agent loops (unnamed/part_005, patterns/05, patterns/03) *)
(* the deterministic guards (patterns/02-deterministic-guards.ts), the     *)
(* event store (patterns/08), withRetry (unnamed/part_002), pruneEphemeral *)
(* (patterns/03), the coordinator (unnamed/part_004) and the single-level  *)
(* delegation of MainAgent and SubAgent (patterns/08).                     *)
(*                                                                         *)
(* Each component has its own specification over its own variables; the    *)
(* variables of the other components are pinned at their initial values.   *)
(***************************************************************************)
EXTENDS Integers, Sequences, FiniteSets, TLC

VARIABLES
    breaker,     \* CircuitBreaker fields: state, failures, successes, lastFailureTime
    cbConfig,    \* CircuitBreakerConfig handed to the constructor
    now,         \* Date.now()
    inflight,    \* execute() calls awaiting fn()
    cbHist,      \* observation of the calls made so far (not program state)
    layerSet,    \* the LayerCheck[] handed to checkAllLayers
    layerOut,    \* the latest checkAllLayers call: guards invoked, in order, and result
    subs,        \* agentWithSubsumption calls: the latest action and outcome, execute() calls
    run,         \* one run of an agent loop: its arguments, locals and outcome
    sess,        \* one session of the loop controller: state, Budget, counts
    guarded,     \* exampleGuardedLoop calls: the latest action, result and outcome, executions
    es,          \* an EventStore, its persisted log, and the states derived from it
    retry,       \* one withRetry call: its config, attempts, sleeps and outcome
    ds,          \* deriveState calls: the event array read and the states returned
    calc,        \* one calculateDelay call: its arguments and what it returned
    prune,       \* pruneEphemeral calls: the list, config and clock, and the lists returned
    coord,       \* Coordinator.delegate and aggregate: subtasks, phases, workers' progress, results
    main         \* a MainAgent: its tools, worker pool and the delegate calls made

breakerVars == <<breaker, cbConfig, now, inflight, cbHist>>
layerVars == <<layerSet, layerOut>>
subsVars == <<subs>>
loopVars == <<run>>
sessVars == <<sess>>
guardedVars == <<guarded>>
storeVars == <<es>>
retryVars == <<retry>>
deriveVars == <<ds>>
calcVars == <<calc>>
pruneVars == <<prune>>
coordVars == <<coord>>
mainVars == <<main>>

vars == <<breakerVars, layerVars, subsVars, loopVars, sessVars, guardedVars, storeVars,
          retryVars, deriveVars, calcVars, pruneVars, coordVars, mainVars>>

notBreaker == <<layerVars, subsVars, loopVars, sessVars, guardedVars, storeVars, retryVars, deriveVars, calcVars, pruneVars, coordVars, mainVars>>
notLayers == <<breakerVars, subsVars, loopVars, sessVars, guardedVars, storeVars, retryVars, deriveVars, calcVars, pruneVars, coordVars, mainVars>>
notSubs == <<breakerVars, layerVars, loopVars, sessVars, guardedVars, storeVars, retryVars, deriveVars, calcVars, pruneVars, coordVars, mainVars>>
notLoops == <<breakerVars, layerVars, subsVars, sessVars, guardedVars, storeVars, retryVars, deriveVars, calcVars, pruneVars, coordVars, mainVars>>
notSess == <<breakerVars, layerVars, subsVars, loopVars, guardedVars, storeVars, retryVars, deriveVars, calcVars, pruneVars, coordVars, mainVars>>
notGuarded == <<breakerVars, layerVars, subsVars, loopVars, sessVars, storeVars, retryVars, deriveVars, calcVars, pruneVars, coordVars, mainVars>>
notStore == <<breakerVars, layerVars, subsVars, loopVars, sessVars, guardedVars, retryVars, deriveVars, calcVars, pruneVars, coordVars, mainVars>>
notDerive == <<breakerVars, layerVars, subsVars, loopVars, sessVars, guardedVars, storeVars, retryVars, calcVars, pruneVars, coordVars, mainVars>>
notCalc == <<breakerVars, layerVars, subsVars, loopVars, sessVars, guardedVars, storeVars, retryVars, deriveVars, pruneVars, coordVars, mainVars>>
notRetry == <<breakerVars, layerVars, subsVars, loopVars, sessVars, guardedVars, storeVars, deriveVars, calcVars, pruneVars, coordVars, mainVars>>
notPrune == <<breakerVars, layerVars, subsVars, loopVars, sessVars, guardedVars, storeVars, retryVars, deriveVars, calcVars, coordVars, mainVars>>
notCoord == <<breakerVars, layerVars, subsVars, loopVars, sessVars, guardedVars, storeVars, retryVars, deriveVars, calcVars, pruneVars, mainVars>>
notMain == <<breakerVars, layerVars, subsVars, loopVars, sessVars, guardedVars, storeVars, retryVars, deriveVars, calcVars, pruneVars, coordVars>>

(***************************************************************************)
(* Bounds of the model.                                                    *)
(***************************************************************************)
MaxFailureThreshold == 3
MaxSuccessThreshold == 2
MaxOpenDuration == 2
MaxTime == 4
MaxCalls == 5
MaxInflight == 2
MaxLayers == 3
MaxSubsCalls == 2
MaxIterations == 3
MaxTools == 2
MaxToolCalls == 2
MaxApiCalls == 2
MaxTokens == 2
MaxGuardedCalls == 2
MaxAppends == 2
MaxWrites == 2
MaxStoreTime == 2
MaxDeriveEvents == 2
MaxDerives == 3
MaxAttempts == 3
MaxAttemptIndex == 5
MaxConfirmLayers == 2
MaxMessages == 3
MaxKeepLast == 2
MaxPrunes == 2
MaxSubtasks == 3
MaxAgentTools == 1
MaxDelegations == 2
MaxRetryDelay == 2

(***************************************************************************)
(* Circuit breaker, patterns/06-tool-validation.ts                         *)
(***************************************************************************)
CircuitState == {"closed", "open", "half_open"}

CircuitBreakerConfig ==
    [failureThreshold : 1..MaxFailureThreshold,
     successThreshold : 1..MaxSuccessThreshold,
     openDurationMs   : 1..MaxOpenDuration]

\* Field initialisers of class CircuitBreaker.
NewBreaker == [state |-> "closed", failures |-> 0, successes |-> 0, lastFailureTime |-> 0]

\* onSuccess() with the threshold compared by > (one success too many).
onSuccess_OffByOne(b, cfg) ==
    LET b1 == [b EXCEPT !.failures = 0]
    IN  IF b1.state = "half_open"
        THEN LET b2 == [b1 EXCEPT !.successes = b1.successes + 1]
             IN  IF b2.successes > cfg.successThreshold
                 THEN [b2 EXCEPT !.state = "closed"]
                 ELSE b2
        ELSE b1

\* onSuccess() with the reset of the failure count moved into the half_open branch.
onSuccess_NoReset(b, cfg) ==
    IF b.state = "half_open"
    THEN LET b2 == [b EXCEPT !.failures = 0, !.successes = b.successes + 1]
         IN  IF b2.successes >= cfg.successThreshold
             THEN [b2 EXCEPT !.state = "closed"]
             ELSE b2
    ELSE b

\* private onSuccess()
onSuccess(b, cfg) ==
    LET b1 == [b EXCEPT !.failures = 0]
    IN  IF b1.state = "half_open"
        THEN LET b2 == [b1 EXCEPT !.successes = b1.successes + 1]
             IN  IF b2.successes >= cfg.successThreshold
                 THEN [b2 EXCEPT !.state = "closed"]
                 ELSE b2
        ELSE b1

\* onFailure() with the threshold compared by > (one failure too many).
onFailure_OffByOne(b, cfg, t) ==
    LET b1 == [b EXCEPT !.failures = b.failures + 1, !.lastFailureTime = t]
    IN  IF b1.state = "half_open"
        THEN [b1 EXCEPT !.state = "open"]
        ELSE IF b1.state = "closed" /\ b1.failures > cfg.failureThreshold
             THEN [b1 EXCEPT !.state = "open"]
             ELSE b1

\* onFailure() that applies the failure threshold in half_open too.
onFailure_HalfOpenThreshold(b, cfg, t) ==
    LET b1 == [b EXCEPT !.failures = b.failures + 1, !.lastFailureTime = t]
    IN  IF b1.state \in {"half_open", "closed"} /\ b1.failures >= cfg.failureThreshold
        THEN [b1 EXCEPT !.state = "open"]
        ELSE b1

\* private onFailure()
onFailure(b, cfg, t) ==
    LET b1 == [b EXCEPT !.failures = b.failures + 1, !.lastFailureTime = t]
    IN  IF b1.state = "half_open"
        THEN [b1 EXCEPT !.state = "open"]
        ELSE IF b1.state = "closed" /\ b1.failures >= cfg.failureThreshold
             THEN [b1 EXCEPT !.state = "open"]
             ELSE b1

\* execute() without the else branch that throws.
failsFast_NoThrow(b, cfg, t) == FALSE

\* execute() that enters half_open without resetting the success count.
afterCheck_KeepSuccesses(b, cfg, t) ==
    IF b.state = "open" /\ t - b.lastFailureTime >= cfg.openDurationMs
    THEN [b EXCEPT !.state = "half_open"]
    ELSE b

\* The open -> half_open check at the top of execute(): TRUE when the call
\* throws 'Circuit breaker is OPEN' instead of reaching fn().
failsFast(b, cfg, t) ==
    b.state = "open" /\ ~(t - b.lastFailureTime >= cfg.openDurationMs)

\* The breaker as execute() leaves it before it calls fn().
afterCheck(b, cfg, t) ==
    IF b.state = "open" /\ t - b.lastFailureTime >= cfg.openDurationMs
    THEN [b EXCEPT !.state = "half_open", !.successes = 0]
    ELSE b

\* reset() that leaves the failure count as it is.
resetBreaker_KeepFailures(b) == [b EXCEPT !.state = "closed", !.successes = 0]

\* reset()
resetBreaker(b) == [b EXCEPT !.state = "closed", !.failures = 0, !.successes = 0]

\* What the calls made so far did: calls = execute() calls begun, fnCalls = calls
\* of fn, last = the latest step of the breaker and from = the breaker's state
\* before it, totalFails = failed calls, consecFails = failed calls since the
\* latest success or reset, halfOpenSucc = successful calls since the breaker
\* last entered half_open.
NewHist == [calls |-> 0, fnCalls |-> 0, last |-> "none", from |-> "closed",
            totalFails |-> 0, consecFails |-> 0, halfOpenSucc |-> 0]

\* A breaker no call is made on (the other components' specifications).
BreakerIdle ==
    /\ breaker = NewBreaker
    /\ cbConfig = [failureThreshold |-> 1, successThreshold |-> 1, openDurationMs |-> 1]
    /\ now = 0
    /\ inflight = 0
    /\ cbHist = NewHist

(***************************************************************************)
(* Subsumption layers, unnamed/part_005 (Pattern 5.2)                      *)
(***************************************************************************)
\* type LayerLevel = keyof typeof LAYERS
LayerLevel == 0..3

\* interface LayerResult, for the action the call is about. A guard that rejects
\* gives a reason of its own.
LayerResult(allowed, override, name) ==
    [allowed |-> allowed, override |-> override,
     reason |-> IF allowed THEN <<"none">> ELSE <<"reason", name>>]

\* interface LayerCheck: name identifies the guard (its place in the supplied
\* array), check is what its check(action) returns.
LayerCheck(layer, name, allowed, override) ==
    [layer |-> layer, name |-> name, check |-> LayerResult(allowed, override, name)]

\* Every LayerCheck[] of n guards, in every order of layers.
LayerSets(n) ==
    { [i \in 1..n |-> LayerCheck(f[i][1], i, f[i][2], f[i][3])] :
        f \in [1..n -> LayerLevel \X BOOLEAN \X BOOLEAN] }

\* Every LayerCheck[] of n guards whose check returns what isActionAllowed
\* returns (assignable to LayerResult): a result that may also carry
\* requiresConfirmation.
ConfirmLayerSets(n) ==
    { [i \in 1..n |->
         [layer |-> f[i][1], name |-> i,
          check |-> LayerResult(f[i][2], f[i][3], i)
                    @@ [requiresConfirmation |-> f[i][4]]]] :
        f \in [1..n -> LayerLevel \X BOOLEAN \X BOOLEAN \X BOOLEAN] }

\* x placed behind the guards of s whose layer is not greater (s is sorted).
RECURSIVE insertByLayer(_, _)
insertByLayer(x, s) ==
    IF s = <<>> THEN <<x>>
    ELSE IF s[Len(s)].layer - x.layer <= 0
         THEN Append(s, x)
         ELSE Append(insertByLayer(x, SubSeq(s, 1, Len(s) - 1)), s[Len(s)])

\* The supplied order kept: the sort left out.
sortByLayer_Unsorted(s) == s

\* [...layers].sort((a, b) => a.layer - b.layer): ascending, guards of equal
\* layer in the order supplied (Array.prototype.sort is stable).
RECURSIVE sortByLayer(_)
sortByLayer(s) ==
    IF s = <<>> THEN <<>>
    ELSE insertByLayer(s[Len(s)], sortByLayer(SubSeq(s, 1, Len(s) - 1)))

\* The for loop without the override test: an allowed guard never ends it.
RECURSIVE checkFrom_NoOverride(_, _, _)
checkFrom_NoOverride(sorted, i, invoked) ==
    IF i > Len(sorted)
    THEN [invoked |-> invoked,
          result |-> [allowed |-> TRUE, reason |-> <<"none">>, decidingLayer |-> 0]]
    ELSE LET layer == sorted[i]
             result == layer.check
             seen == Append(invoked, layer.name)
         IN  IF ~result.allowed
             THEN [invoked |-> seen,
                   result |-> [allowed |-> FALSE, reason |-> result.reason,
                               decidingLayer |-> layer.name]]
             ELSE checkFrom_NoOverride(sorted, i + 1, seen)

\* The for loop of checkAllLayers over the sorted guards from index i on:
\* the guards invoked so far, and the value returned.
RECURSIVE checkFrom(_, _, _)
checkFrom(sorted, i, invoked) ==
    IF i > Len(sorted)
    THEN [invoked |-> invoked,
          result |-> [allowed |-> TRUE, reason |-> <<"none">>, decidingLayer |-> 0]]
    ELSE LET layer == sorted[i]
             result == layer.check
             seen == Append(invoked, layer.name)
         IN  IF ~result.allowed
             THEN [invoked |-> seen,
                   result |-> [allowed |-> FALSE, reason |-> result.reason,
                               decidingLayer |-> layer.name]]
             ELSE IF result.override
                  THEN [invoked |-> seen,
                        result |-> [allowed |-> TRUE, reason |-> <<"none">>,
                                    decidingLayer |-> layer.name]]
                  ELSE checkFrom(sorted, i + 1, seen)

\* function checkAllLayers(action, layers)
checkAllLayers(layers) == checkFrom(sortByLayer(layers), 1, <<>>)

NoLayerRun ==
    [called |-> FALSE, invoked |-> <<>>,
     result |-> [allowed |-> TRUE, reason |-> <<"none">>, decidingLayer |-> 0]]

\* No checkAllLayers call is made (the other components' specifications).
LayersIdle ==
    /\ layerSet = <<>>
    /\ layerOut = NoLayerRun

(***************************************************************************)
(* agentWithSubsumption and its three layers, unnamed/part_005             *)
(***************************************************************************)
\* const forbidden of safetyLayer.check
Forbidden == {"delete_system_files", "disable_logging", "bypass_auth", "exfiltrate_data"}

ActionTypes == Forbidden \cup {"read_file", "send_email", "run_command"}

\* action.target: absent, or a path; startsWith('/etc/') || startsWith('/root/')
Targets == {"absent", "/tmp/data.json", "/etc/passwd", "/root/notes"}
inSystemDirectory(target) == target \in {"/etc/passwd", "/root/notes"}

\* action.parameters: absent, or an object, of which the layers read only whether
\* its JSON text includes 'rm -rf /' or 'DROP DATABASE' (destructive) and
\* whether its content matches the SSN pattern (ssn).
NoParameters == [present |-> FALSE, destructive |-> FALSE, ssn |-> FALSE]
Parameters ==
    {NoParameters} \cup [present : {TRUE}, destructive : BOOLEAN, ssn : BOOLEAN]

\* interface Action
Action == [type : ActionTypes, target : Targets, parameters : Parameters]

Allowed == [allowed |-> TRUE, override |-> FALSE, reason |-> <<"none">>]

\* safetyLayer.check
safetyCheck(action) ==
    IF action.type \in Forbidden
    THEN [allowed |-> FALSE, override |-> TRUE,
          reason |-> <<"Safety violation: forbidden", action.type>>]
    ELSE IF action.parameters.present /\ action.parameters.destructive
         THEN [allowed |-> FALSE, override |-> TRUE,
               reason |-> <<"Safety violation: destructive pattern detected">>]
         ELSE Allowed

\* resourcesLayer.check
resourcesCheck(action) == Allowed

\* policyLayer.check
policyCheck(action) ==
    IF action.type = "send_email" /\ action.parameters.present /\ action.parameters.ssn
    THEN [allowed |-> FALSE, override |-> FALSE,
          reason |-> <<"Policy: Cannot send SSN via email">>]
    ELSE IF /\ action.type = "read_file"
            /\ action.target # "absent"
            /\ inSystemDirectory(action.target)
         THEN [allowed |-> FALSE, override |-> FALSE,
               reason |-> <<"Policy: Access to system directories denied">>]
         ELSE Allowed

\* const layers = [safetyLayer, resourcesLayer, policyLayer], checked on action
subsumptionLayers(action) ==
    << [layer |-> 0, name |-> "safety", check |-> safetyCheck(action)],
       [layer |-> 1, name |-> "resources", check |-> resourcesCheck(action)],
       [layer |-> 2, name |-> "policy", check |-> policyCheck(action)] >>

\* The template string returned for a blocked action.
blockedMessage(result) == <<"Blocked by", result.decidingLayer, "layer:", result.reason>>

\* execute(action), the caller's function: it resolves with a string or rejects.
ExecuteOutcomes == {"resolves", "rejects"}
executeResult(action, how) ==
    IF how = "resolves"
    THEN [kind |-> "returned", value |-> <<"Executed:", action.type>>]
    ELSE [kind |-> "threw", value |-> <<"execute failed">>]

NoAction == [type |-> "read_file", target |-> "absent", parameters |-> NoParameters]
NoSubsCall ==
    [calls |-> 0, executed |-> 0, action |-> NoAction,
     outcome |-> [kind |-> "none", value |-> <<>>]]

\* No agentWithSubsumption call is made (the other components' specifications).
SubsIdle == subs = NoSubsCall

\* agentWithSubsumption that executes first and consults the layers afterwards.
AgentWithSubsumption_ExecuteFirst(action, how) ==
    /\ subs.calls < MaxSubsCalls
    /\ LET result == checkAllLayers(subsumptionLayers(action)).result
       IN  subs' = [calls |-> subs.calls + 1,
                    executed |-> subs.executed + 1,
                    action |-> action,
                    outcome |-> IF ~result.allowed /\ how = "resolves"
                                THEN [kind |-> "returned", value |-> blockedMessage(result)]
                                ELSE executeResult(action, how)]
    /\ UNCHANGED notSubs

\* async function agentWithSubsumption(action, execute)
AgentWithSubsumption(action, how) ==
    /\ subs.calls < MaxSubsCalls
    /\ LET result == checkAllLayers(subsumptionLayers(action)).result
       IN  IF ~result.allowed
           THEN subs' = [calls |-> subs.calls + 1,
                         executed |-> subs.executed,
                         action |-> action,
                         outcome |-> [kind |-> "returned",
                                      value |-> blockedMessage(result)]]
           ELSE subs' = [calls |-> subs.calls + 1,
                         executed |-> subs.executed + 1,
                         action |-> action,
                         outcome |-> executeResult(action, how)]
    /\ UNCHANGED notSubs

(***************************************************************************)
(* The agent loops: agent (unnamed/part_005), agentWithExplicitTermination *)
(* (patterns/05-explicit-termination.ts), agentWithPruning                 *)
(* (patterns/03-ephemeral-messages.ts)                                     *)
(***************************************************************************)
Variants == {"agent", "agentWithExplicitTermination", "agentWithPruning"}

\* interface Tool: onExecute is what execute(args) does: it returns a string,
\* throws an error, or throws TaskComplete (the class is exported).
CallerToolKinds ==
    { [name |-> "read_file", onExecute |-> "returns"],
      [name |-> "flaky", onExecute |-> "throws"],
      [name |-> "done", onExecute |-> "returns"],
      [name |-> "finish", onExecute |-> "completes"] }

\* The tools argument: any list of at most MaxTools tools.
CallerTools == UNION { [1..n -> CallerToolKinds] : n \in 0..MaxTools }

\* const doneTool of patterns/05-explicit-termination.ts
doneTool == [name |-> "done", onExecute |-> "completes"]

\* A tool call of a response: the name asked for and, for 'done', args.success.
ToolCalls ==
    { [name |-> n, success |-> TRUE] :
          n \in {"read_file", "flaky", "done", "finish", "unknown"} }
        \cup { [name |-> "done", success |-> FALSE] }

NoTool == [name |-> "undefined", onExecute |-> "undefined"]

\* tools.find(t => t.name === name)
RECURSIVE find(_, _)
find(tools, name) ==
    IF tools = <<>> THEN NoTool
    ELSE IF tools[1].name = name THEN tools[1] ELSE find(Tail(tools), name)

\* const allTools = [...tools, doneTool]
allTools(tools) == Append(tools, doneTool)

\* config = { keepLast: 5 }, the default of agentWithPruning
KeepLastDefault == 5

\* messages, as far as the loops read it: how many permanent and ephemeral
\* messages it holds and the content of the last one.
NewMessages == [permanent |-> 1, ephemeral |-> 0, last |-> "task"]
push(messages, content) ==
    [messages EXCEPT !.permanent = @ + 1, !.last = content]
pushEphemeral(messages, content) ==
    [messages EXCEPT !.ephemeral = @ + 1, !.last = content]
\* pruneEphemeral(messages, { keepLast }) without maxAge: the last keepLast
\* ephemeral messages stay (slice(-keepLast); slice(-0) keeps all).
pruneLoopMessages(messages, keepLast) ==
    IF keepLast = 0 \/ messages.ephemeral <= keepLast
    THEN messages
    ELSE [messages EXCEPT !.ephemeral = keepLast]

MaxIterationsMessage == <<"Max iterations reached without explicit completion">>

\* A run just called: the loop has made no iteration. agentWithExplicitTermination
\* with maxIterations = 0 returns at once.
NewRun(variant, tools, maxIterations) ==
    [variant |-> variant, tools |-> tools, maxIterations |-> maxIterations,
     pc |-> IF variant = "agentWithExplicitTermination" /\ maxIterations = 0
            THEN "returned" ELSE "running",
     i |-> 0, pending |-> 0, messages |-> NewMessages, toolRuns |-> 0,
     doneSignals |-> 0,
     result |-> IF variant = "agentWithExplicitTermination" /\ maxIterations = 0
                THEN MaxIterationsMessage ELSE <<>>]

\* No loop is run (the other components' specifications).
LoopsIdle == run = NewRun("agent", <<>>, 0)

\* The iterations the unbounded loops are followed for.
IterCap == MaxIterations + 1

\* The end of one pass of the for loop of agentWithExplicitTermination: i++ and
\* the test i < maxIterations, the fallback return when it fails.
endOfIteration(r) ==
    IF r.variant = "agentWithExplicitTermination" /\ r.pending = 0 /\ r.pc = "running"
       /\ ~(r.i < r.maxIterations)
    THEN [r EXCEPT !.pc = "returned", !.result = MaxIterationsMessage]
    ELSE r

\* agent with "no tool calls" read as completion: a response without tool calls
\* ends the loop as response.done does.
AgentInvoke_SilenceCompletes(throws, done, nCalls) ==
    /\ run.variant = "agent" /\ run.pc = "running" /\ run.pending = 0
    /\ run.i < IterCap
    /\ run' = IF throws
              THEN [run EXCEPT !.i = @ + 1, !.pc = "threw"]
              ELSE IF done \/ nCalls = 0
                   THEN [run EXCEPT !.i = @ + 1, !.pc = "returned",
                                    !.doneSignals = @ + (IF done THEN 1 ELSE 0),
                                    !.result = <<"response.result">>]
                   ELSE [run EXCEPT !.i = @ + 1, !.pending = nCalls]
    /\ UNCHANGED notLoops

\* agent: const response = await llm.invoke(messages, tools), the done check.
\* The tool calls of the response are drawn one by one as the loop reaches them.
AgentInvoke(throws, done, nCalls) ==
    /\ run.variant = "agent" /\ run.pc = "running" /\ run.pending = 0
    /\ run.i < IterCap
    /\ run' = IF throws
              THEN [run EXCEPT !.i = @ + 1, !.pc = "threw"]
              ELSE IF done
                   THEN [run EXCEPT !.i = @ + 1, !.pc = "returned",
                                    !.doneSignals = @ + 1,
                                    !.result = <<"response.result">>]
                   ELSE [run EXCEPT !.i = @ + 1, !.pending = nCalls]
    /\ UNCHANGED notLoops

\* agent: one pass of for (const call of response.toolCalls)
AgentToolCall(call) ==
    /\ run.variant = "agent" /\ run.pc = "running" /\ run.pending > 0
    /\ LET tool == find(run.tools, call.name)
       IN  run' = IF tool = NoTool
                  THEN [run EXCEPT !.pending = @ - 1,
                                   !.messages = push(@, "Error: Unknown tool")]
                  ELSE IF tool.onExecute = "returns"
                       THEN [run EXCEPT !.pending = @ - 1, !.toolRuns = @ + 1,
                                        !.messages = push(@, "tool result")]
                       ELSE [run EXCEPT !.pending = 0, !.toolRuns = @ + 1,
                                        !.pc = "threw"]
    /\ UNCHANGED notLoops

\* agentWithExplicitTermination: const response = await llm.invoke(messages, allTools)
ExplicitInvoke(throws, nCalls) ==
    /\ run.variant = "agentWithExplicitTermination" /\ run.pc = "running"
    /\ run.pending = 0
    /\ run.i < run.maxIterations
    /\ run' = IF throws
              THEN [run EXCEPT !.i = @ + 1, !.pc = "threw"]
              ELSE endOfIteration([run EXCEPT !.i = @ + 1, !.pending = nCalls])
    /\ UNCHANGED notLoops

\* agentWithExplicitTermination: one pass of for (const call of response.toolCalls)
ExplicitToolCall(call) ==
    /\ run.variant = "agentWithExplicitTermination" /\ run.pc = "running"
    /\ run.pending > 0
    /\ LET tool == find(allTools(run.tools), call.name)
           signals == IF call.name = "done" THEN 1 ELSE 0
       IN  run' = IF tool = NoTool
                  THEN endOfIteration([run EXCEPT !.pending = @ - 1])
                  ELSE IF tool.onExecute = "returns"
                       THEN endOfIteration(
                                [run EXCEPT !.pending = @ - 1, !.toolRuns = @ + 1,
                                            !.doneSignals = @ + signals,
                                            !.messages = push(@, "tool result")])
                       ELSE IF tool.onExecute = "completes"
                            THEN [run EXCEPT !.pending = 0, !.toolRuns = @ + 1,
                                             !.doneSignals = @ + signals,
                                             !.pc = "returned",
                                             !.result = IF tool # doneTool
                                                        THEN <<"error.result">>
                                                        ELSE IF call.success
                                                        THEN <<"args.result">>
                                                        ELSE <<"Failed: args.result">>]
                            ELSE [run EXCEPT !.pending = 0, !.toolRuns = @ + 1,
                                             !.pc = "threw"]
    /\ UNCHANGED notLoops

\* agentWithPruning: messages = pruneEphemeral(messages, config), then
\* const response = await llm.invoke(messages), the done check.
PruningInvoke(throws, done, nCalls) ==
    /\ run.variant = "agentWithPruning" /\ run.pc = "running" /\ run.pending = 0
    /\ run.i < IterCap
    /\ LET pruned == pruneLoopMessages(run.messages, KeepLastDefault)
       IN  run' = IF throws
                  THEN [run EXCEPT !.i = @ + 1, !.messages = pruned, !.pc = "threw"]
                  ELSE IF done
                       THEN [run EXCEPT !.i = @ + 1, !.messages = pruned,
                                        !.pc = "returned", !.doneSignals = @ + 1,
                                        !.result = <<"content of", pruned.last>>]
                       ELSE [run EXCEPT !.i = @ + 1, !.messages = pruned,
                                        !.pending = nCalls]
    /\ UNCHANGED notLoops

\* agentWithPruning: one pass of for (const call of response.toolCalls)
PruningToolCall(call) ==
    /\ run.variant = "agentWithPruning" /\ run.pc = "running" /\ run.pending > 0
    /\ LET tool == find(run.tools, call.name)
       IN  run' = IF tool = NoTool
                  THEN [run EXCEPT !.pending = @ - 1]
                  ELSE IF tool.onExecute = "returns"
                       THEN [run EXCEPT !.pending = @ - 1, !.toolRuns = @ + 1,
                                        !.messages = pushEphemeral(@, "tool result")]
                       ELSE [run EXCEPT !.pending = 0, !.toolRuns = @ + 1,
                                        !.pc = "threw"]
    /\ UNCHANGED notLoops

(***************************************************************************)
(* Deterministic guards, patterns/02-deterministic-guards.ts               *)
(***************************************************************************)
\* action.type as the guards read it: missing (undefined or ''), a value that
\* is not a string, or a tool name.
GuardTypes == {"missing", "nonstring", "read_file", "delete_database", "deploy"}

\* action.parameters as the guards read it: absent, an object whose JSON text
\* matches no blocked pattern, an object whose JSON text matches one, a
\* string (truthy, not an object), or a falsy value that is not an object
\* (0, '' or false).
GuardParameters == {"absent", "object", "object_blocked", "string", "falsy"}

\* interface Action (patterns/types.ts)
GuardAction == [type : GuardTypes, parameters : GuardParameters]

\* const policy of exampleGuardedLoop, cut to the tools of GuardTypes
ExamplePolicy ==
    [blockedTools |-> {"delete_database"}, requiresConfirmation |-> {"deploy"}]

\* interface GuardResult (patterns/types.ts)
GuardAllowed ==
    [allowed |-> TRUE, reason |-> "none", override |-> FALSE, requiresConfirmation |-> FALSE]
GuardRejected(reason, override) ==
    [allowed |-> FALSE, reason |-> reason, override |-> override,
     requiresConfirmation |-> FALSE]

\* function isValidAction(action)
isValidAction(action) ==
    IF action.type \in {"missing", "nonstring"}
    THEN GuardRejected("Missing or invalid action type", FALSE)
    ELSE IF action.parameters = "string"
         THEN GuardRejected("Parameters must be an object", FALSE)
         ELSE GuardAllowed

\* function isPolicyCompliant(action, policy)
isPolicyCompliant(action, policy) ==
    IF action.type \in policy.blockedTools
    THEN GuardRejected("Action is blocked by policy", FALSE)
    ELSE IF action.parameters = "object_blocked"
         THEN GuardRejected("Arguments contain blocked pattern", FALSE)
         ELSE IF action.type \in policy.requiresConfirmation
              THEN [allowed |-> TRUE, reason |-> "Action requires human approval",
                    override |-> FALSE, requiresConfirmation |-> TRUE]
              ELSE GuardAllowed

\* checkBudget with the API call ledger compared by > (one call too many).
checkBudget_OffByOne(budget, t) ==
    IF budget.usedTokens >= budget.maxTokens
    THEN GuardRejected("Token budget exhausted", TRUE)
    ELSE IF budget.usedApiCalls > budget.maxApiCalls
         THEN GuardRejected("API call budget exhausted", TRUE)
         ELSE IF budget.maxTimeMs # 0 /\ budget.startTime # 0
                 /\ t - budget.startTime >= budget.maxTimeMs
              THEN GuardRejected("Time budget exhausted", TRUE)
              ELSE GuardAllowed

\* function checkBudget(budget), t = Date.now(); a maxTimeMs or startTime that
\* is unset or 0 is falsy.
checkBudget(budget, t) ==
    IF budget.usedTokens >= budget.maxTokens
    THEN GuardRejected("Token budget exhausted", TRUE)
    ELSE IF budget.usedApiCalls >= budget.maxApiCalls
         THEN GuardRejected("API call budget exhausted", TRUE)
         ELSE IF budget.maxTimeMs # 0 /\ budget.startTime # 0
                 /\ t - budget.startTime >= budget.maxTimeMs
              THEN GuardRejected("Time budget exhausted", TRUE)
              ELSE GuardAllowed

\* function runGuards(action, policy, budget)
runGuards(action, policy, budget, t) ==
    LET budgetResult == checkBudget(budget, t)
        validationResult == isValidAction(action)
        policyResult == isPolicyCompliant(action, policy)
    IN  IF ~budgetResult.allowed THEN budgetResult
        ELSE IF ~validationResult.allowed THEN validationResult
        ELSE IF ~policyResult.allowed THEN policyResult
        ELSE IF policyResult.requiresConfirmation THEN policyResult
        ELSE GuardAllowed

(***************************************************************************)
(* The loop controller of one session (spec.md 4.4): the catalog has no    *)
(* code for it; it is modelled from the specification around the guards    *)
(* above.                                                                  *)
(***************************************************************************)
\* interface Budget (patterns/types.ts): a session's ledger, no time limit set.
NewBudget(maxTokens, maxApiCalls) ==
    [maxTokens |-> maxTokens, maxApiCalls |-> maxApiCalls, maxTimeMs |-> 0,
     usedTokens |-> 0, usedApiCalls |-> 0, startTime |-> 0]

NoGuardAction == [type |-> "missing", parameters |-> "absent"]

NewSession(maxTokens, maxApiCalls, maxIterations) ==
    [state |-> "RUNNING", budget |-> NewBudget(maxTokens, maxApiCalls),
     maxIterations |-> maxIterations, ticks |-> 0, executed |-> 0,
     rejections |-> 0, reason |-> "none", pendingAction |-> NoGuardAction]

\* No session is run (the other components' specifications).
SessIdle == sess = NewSession(1, 1, 1)

\* Step 6: the approved action is executed and the Budget ledger updated.
executeApproved(s, tokens) ==
    [s EXCEPT !.executed = @ + 1,
              !.budget.usedApiCalls = @ + 1,
              !.budget.usedTokens = @ + tokens,
              !.reason = "none"]

\* The iteration ceiling, tested when a tick ends.
ceiling(s) ==
    IF s.state = "RUNNING" /\ s.ticks >= s.maxIterations
    THEN [s EXCEPT !.state = "MAX_ITERATIONS"]
    ELSE s

\* One tick: the decision source signals completion or proposes an action, the
\* guards decide, an approved action is executed and uses tokens of the budget.
SessionTick(done, action, tokens) ==
    /\ sess.state = "RUNNING"
    /\ LET s == [sess EXCEPT !.ticks = @ + 1]
           result == runGuards(action, ExamplePolicy, sess.budget, now)
       IN  sess' =
             IF done THEN [s EXCEPT !.state = "DONE"]
             ELSE IF ~result.allowed /\ result.override
                  THEN [s EXCEPT !.state = "BUDGET_EXCEEDED", !.reason = result.reason]
             ELSE IF ~result.allowed
                  THEN ceiling([s EXCEPT !.rejections = @ + 1, !.reason = result.reason])
             ELSE IF result.requiresConfirmation
                  THEN [s EXCEPT !.state = "PENDING_CONFIRMATION",
                                 !.reason = result.reason, !.pendingAction = action]
             ELSE ceiling(executeApproved(s, tokens))
    /\ UNCHANGED notSess

\* The confirmation is granted or refused from outside: the session re-enters
\* at the guards, and a granted action that they still approve is executed.
SessionResume(granted, tokens) ==
    /\ sess.state = "PENDING_CONFIRMATION"
    /\ LET s == [sess EXCEPT !.state = "RUNNING", !.pendingAction = NoGuardAction]
           result == runGuards(sess.pendingAction, ExamplePolicy, sess.budget, now)
       IN  sess' =
             IF ~granted
             THEN ceiling([s EXCEPT !.rejections = @ + 1, !.reason = "Confirmation refused"])
             ELSE IF ~result.allowed /\ result.override
                  THEN [s EXCEPT !.state = "BUDGET_EXCEEDED", !.reason = result.reason]
             ELSE IF ~result.allowed
                  THEN ceiling([s EXCEPT !.rejections = @ + 1, !.reason = result.reason])
             ELSE ceiling(executeApproved(s, tokens))
    /\ UNCHANGED notSess

(***************************************************************************)
(* The caller of the guards, exampleGuardedLoop                            *)
(* (patterns/02-deterministic-guards.ts): the steps from the runGuards     *)
(* call on, for any action and any Budget.                                 *)
(***************************************************************************)
\* interface Budget (patterns/types.ts) as exampleGuardedLoop hands it to the guards
GuardBudgets ==
    [maxTokens : {MaxTokens}, maxApiCalls : {MaxApiCalls}, maxTimeMs : {0, 2},
     usedTokens : {0, MaxTokens - 1, MaxTokens}, usedApiCalls : {0, MaxApiCalls},
     startTime : {0, 1}]

\* Date.now() at the call: before and after a time limit of 2 from startTime 1
GuardTimes == {1, 3}

\* exampleGuardedLoop has not been called. budget and at are the Budget handed
\* to runGuards and Date.now() at the call.
NoGuardedRun ==
    [calls |-> 0, action |-> [type |-> "missing", parameters |-> "absent"],
     budget |-> NewBudget(1, 1), at |-> 0,
     result |-> GuardAllowed, outcome |-> "none", executions |-> 0]

GuardedIdle == guarded = NoGuardedRun

\* What exampleGuardedLoop does with the guards' result: return after a
\* rejection, return to pause for the confirmation, or go on to the execution.
guardedOutcome(result) ==
    IF ~result.allowed THEN "blocked"
    ELSE IF result.requiresConfirmation THEN "pending"
    ELSE "proceeds"

\* exampleGuardedLoop without the requiresConfirmation test: every allowed
\* action goes on to the execution.
ExampleGuardedLoop_NoPause(action, budget, t) ==
    /\ guarded.calls < MaxGuardedCalls
    /\ LET result == runGuards(action, ExamplePolicy, budget, t)
           outcome == IF ~result.allowed THEN "blocked" ELSE "proceeds"
       IN  guarded' = [calls |-> guarded.calls + 1, action |-> action,
                       budget |-> budget, at |-> t, result |-> result,
                       outcome |-> outcome,
                       executions |-> guarded.executions
                                      + (IF outcome = "proceeds" THEN 1 ELSE 0)]
    /\ UNCHANGED notGuarded

\* exampleGuardedLoop from "const result = runGuards(action, policy, budget)" on
ExampleGuardedLoop(action, budget, t) ==
    /\ guarded.calls < MaxGuardedCalls
    /\ LET result == runGuards(action, ExamplePolicy, budget, t)
           outcome == guardedOutcome(result)
       IN  guarded' = [calls |-> guarded.calls + 1, action |-> action,
                       budget |-> budget, at |-> t, result |-> result,
                       outcome |-> outcome,
                       executions |-> guarded.executions
                                      + (IF outcome = "proceeds" THEN 1 ELSE 0)]
    /\ UNCHANGED notGuarded


(***************************************************************************)
(* Event store and state derivation, patterns/08-event-sourced-state.ts    *)
(* (Pattern 4.2)                                                           *)
(***************************************************************************)
\* Values of the fields typed unknown (newValue): a string, or the number NaN.
StoreValues == {"text", "NaN"}

\* Omit<AgentEvent, 'timestamp'>: what a caller hands to append.
EventInputs ==
    { [type |-> "tool_called", tool |-> "read_file"] }
        \cup { [type |-> "tool_result", tool |-> "read_file", success |-> b] : b \in BOOLEAN }
        \cup { [type |-> "state_changed", key |-> "k", newValue |-> v] : v \in StoreValues }
        \cup { [type |-> "error_occurred", error |-> "boom"] }

\* const fullEvent = { ...event, timestamp: Date.now() }
fullEvent(event, t) ==
    [f \in DOMAIN event \cup {"timestamp"} |-> IF f = "timestamp" THEN t ELSE event[f]]

\* JSON.stringify of a value: NaN has no JSON form and is written as null.
jsonValue(v) == IF v = "NaN" THEN "null" ELSE v

\* JSON.stringify(e): one line of the persisted log. ok tells whether
\* JSON.parse accepts the line.
stringify(e) ==
    [ok |-> TRUE,
     json |-> IF e.type = "state_changed" THEN [e EXCEPT !.newValue = jsonValue(@)] ELSE e]

\* A line that was cut short: JSON.parse throws on it.
cutLine(line) == [ok |-> FALSE, json |-> line.json]

\* this.events.map(e => JSON.stringify(e)).join('\n'), as the lines written
serialize(events) == [i \in 1..Len(events) |-> stringify(events[i])]

\* The persisted file: absent, or its non-empty lines in file order.
NoFile == [exists |-> FALSE, lines |-> <<>>]

\* content.split('\n').filter(line => line.trim()).map(line => JSON.parse(line)):
\* whether every line parses, and the events parsed.
parses(lines) == \A i \in 1..Len(lines) : lines[i].ok
parse(lines) == [i \in 1..Len(lines) |-> lines[i].json]

\* data written from offset 0 into a file that holds old lines
overlay(data, old) ==
    IF Len(data) >= Len(old) THEN data
    ELSE data \o SubSeq(old, Len(data) + 1, Len(old))

\* all(): a copy of this.events
all(store) == store.events

\* filter(type)
RECURSIVE SelectEvents(_, _)
SelectEvents(events, type) ==
    IF events = <<>> THEN <<>>
    ELSE IF events[1].type = type
         THEN <<events[1]>> \o SelectEvents(Tail(events), type)
         ELSE SelectEvents(Tail(events), type)

\* interface AgentState, as deriveState initialises it
NewAgentState ==
    [toolCalls |-> 0, successfulCalls |-> 0, failedCalls |-> 0, errors |-> <<>>,
     lastActivity |-> 0, variables |-> <<>>]

\* Math.max(a, b)
Max(a, b) == IF a >= b THEN a ELSE b

\* state.variables[key] = value
setVariable(variables, key, value) ==
    [k \in DOMAIN variables \cup {key} |-> IF k = key THEN value ELSE variables[k]]

\* One pass of for (const event of events) in deriveState.
applyEvent(state, event) ==
    LET s == [state EXCEPT !.lastActivity = Max(@, event.timestamp)]
    IN  CASE event.type = "tool_called" -> [s EXCEPT !.toolCalls = @ + 1]
          [] event.type = "tool_result" ->
                IF event.success THEN [s EXCEPT !.successfulCalls = @ + 1]
                ELSE [s EXCEPT !.failedCalls = @ + 1]
          [] event.type = "state_changed" ->
                [s EXCEPT !.variables = setVariable(@, event.key, event.newValue)]
          [] event.type = "error_occurred" -> [s EXCEPT !.errors = Append(@, event.error)]
          [] OTHER -> s

RECURSIVE foldEvents(_, _)
foldEvents(state, events) ==
    IF events = <<>> THEN state
    ELSE foldEvents(applyEvent(state, events[1]), Tail(events))

\* function deriveState(events)
deriveState(events) == foldEvents(NewAgentState, events)

\* The file an earlier process may have left at the path: none, a log of one
\* event, or a log whose last line was cut short when that process crashed
\* inside fs.writeFile.
EarlierEvent == fullEvent([type |-> "tool_called", tool |-> "read_file"], 1)
InitialFiles ==
    { NoFile,
      [exists |-> TRUE, lines |-> <<stringify(EarlierEvent)>>],
      [exists |-> TRUE, lines |-> <<cutLine(stringify(EarlierEvent))>>],
      [exists |-> TRUE, lines |-> <<stringify(EarlierEvent), cutLine(stringify(EarlierEvent))>>] }

\* new EventStore(persistPath), the file as it is: no event in memory, no
\* write in flight, no append or load made yet.
NewStore(persistPath, file) ==
    [persistPath |-> persistPath, events |-> <<>>, file |-> file, writes |-> <<>>,
     clock |-> 1, appended |-> <<>>, returned |-> {},
     lastLoad |-> [read |-> "none", outcome |-> "none"]]

\* No store is used (the other components' specifications).
StoreIdle == es = NewStore(FALSE, NoFile)

\* load() with the file read as it is: the events it leaves in this.events and
\* what became of the call. Every error of the try block is caught and dropped.
loadEvents(events, file) ==
    IF ~file.exists
    THEN [events |-> events, read |-> "missing", outcome |-> "resolved"]
    ELSE IF ~parses(file.lines)
         THEN [events |-> events, read |-> "unparsable", outcome |-> "resolved"]
         ELSE [events |-> parse(file.lines), read |-> "parsed", outcome |-> "resolved"]

\* append(event), up to the await of persist(): the event is pushed and, with
\* a persistPath, fs.writeFile is called with the log as it is now.
AppendCall(event, t) ==
    /\ Len(es.events) < MaxAppends
    /\ Len(es.appended) < MaxAppends
    /\ es.persistPath => Len(es.writes) < MaxWrites
    /\ t \in {es.clock, es.clock + 1} /\ t <= MaxStoreTime
    /\ LET events == Append(es.events, fullEvent(event, t))
           n == Len(es.appended) + 1
       IN  es' = [es EXCEPT !.events = events,
                            !.clock = t,
                            !.appended = Append(@, fullEvent(event, t)),
                            !.writes = IF es.persistPath
                                       THEN Append(@, [data |-> serialize(events),
                                                       stage |-> "queued", append |-> n])
                                       ELSE @,
                            !.returned = IF es.persistPath THEN @ ELSE @ \cup {n}]
    /\ UNCHANGED notStore

\* persist(), called by the user of the store
PersistCall ==
    /\ es.persistPath
    /\ Len(es.writes) < MaxWrites
    /\ es' = [es EXCEPT !.writes = Append(@, [data |-> serialize(es.events),
                                              stage |-> "queued", append |-> 0])]
    /\ UNCHANGED notStore

\* fs.writeFile opens the file for writing: the file is created or emptied.
WriteOpen(k) ==
    /\ k \in 1..Len(es.writes)
    /\ es.writes[k].stage = "queued"
    /\ es' = [es EXCEPT !.file = [exists |-> TRUE, lines |-> <<>>],
                        !.writes[k].stage = "opened"]
    /\ UNCHANGED notStore

\* fs.writeFile writes its data from the start of the file and closes it.
WriteData(k) ==
    /\ k \in 1..Len(es.writes)
    /\ es.writes[k].stage = "opened"
    /\ es' = [es EXCEPT !.file = [exists |-> TRUE,
                                  lines |-> overlay(es.writes[k].data, es.file.lines)],
                        !.writes[k].stage = "written"]
    /\ UNCHANGED notStore

\* The promise of fs.writeFile resolves: persist() and the append (or the
\* persist call) that awaits it return.
WriteReturn(k) ==
    /\ k \in 1..Len(es.writes)
    /\ es.writes[k].stage = "written"
    /\ es' = [es EXCEPT !.writes = SubSeq(@, 1, k - 1) \o SubSeq(@, k + 1, Len(@)),
                        !.returned = IF es.writes[k].append = 0 THEN @
                                     ELSE @ \cup {es.writes[k].append}]
    /\ UNCHANGED notStore

\* load()
Load ==
    /\ es.persistPath
    /\ LET l == loadEvents(es.events, es.file)
       IN  es' = [es EXCEPT !.events = l.events,
                            !.lastLoad = [read |-> l.read, outcome |-> l.outcome]]
    /\ UNCHANGED notStore

(***************************************************************************)
(* Calls of deriveState on an event array (the store's this.events, or the *)
(* copy all() returns): what each call was given and what it returned.     *)
(***************************************************************************)
\* AgentEvent, with the timestamps an append may have given
TimedEvents == { fullEvent(e, t) : e \in EventInputs, t \in 1..MaxStoreTime }

\* No call yet, on an array of events.
NewDerive(events) == [events |-> events, results |-> <<>>]

DeriveIdle == ds = NewDerive(<<>>)

\* deriveState with its accumulator kept between calls (one state object for
\* all calls): a call goes on from the counts of the call before, and the
\* state that call returned is the same object.
DeriveState_SharedState ==
    /\ Len(ds.results) < MaxDerives
    /\ LET state == IF ds.results = <<>> THEN deriveState(ds.events)
                    ELSE foldEvents(ds.results[Len(ds.results)].state, ds.events)
       IN  ds' = [ds EXCEPT !.results =
                      [i \in 1..Len(@) |-> [@[i] EXCEPT !.state = state]]
                          \o <<[input |-> ds.events, state |-> state]>>]
    /\ UNCHANGED notDerive

\* const state = deriveState(events): the function builds a new state object,
\* reads the events and returns the object.
DeriveState ==
    /\ Len(ds.results) < MaxDerives
    /\ ds' = [ds EXCEPT !.results =
                 Append(@, [input |-> ds.events, state |-> deriveState(ds.events)])]
    /\ UNCHANGED notDerive

\* An event is appended to the array between two calls.
DeriveAppend(event) ==
    /\ Len(ds.events) < MaxDeriveEvents
    /\ ds' = [ds EXCEPT !.events = Append(@, event)]
    /\ UNCHANGED notDerive

(***************************************************************************)
(* Retry with exponential backoff, unnamed/part_002 (Pattern 6.1)          *)
(***************************************************************************)
\* interface RetryConfig. jitterFactor is held in percent (jitterPercent = 20
\* for 0.2) and Math.random() in thousandths, so that the delays are integers.
RetryConfig ==
    [maxAttempts : 0..MaxAttempts, baseDelayMs : {1, 1000}, maxDelayMs : {1500, 30000},
     jitterPercent : {0, 20, 100}]

\* Values of Math.random(), in thousandths: 0 <= random < 1.
Randoms == {0, 500, 999}

Min(a, b) == IF a <= b THEN a ELSE b

\* calculateDelay with the cap left out.
calculateDelay_NoCap(attempt, config, random) ==
    LET exponential == config.baseDelayMs * 2^attempt
        capped == exponential
        jitter == (capped * ((config.jitterPercent * (2 * random - 1000)) \div 100)) \div 1000
    IN  [exponential |-> exponential, capped |-> capped, jitter |-> jitter,
         delay |-> Max(0, capped + jitter)]

\* function calculateDelay(attempt, config), random = Math.random(): the value
\* returned (delay) and the values it is made of.
calculateDelay(attempt, config, random) ==
    LET exponential == config.baseDelayMs * 2^attempt
        capped == Min(exponential, config.maxDelayMs)
        jitter == (capped * ((config.jitterPercent * (2 * random - 1000)) \div 100)) \div 1000
    IN  [exponential |-> exponential, capped |-> capped, jitter |-> jitter,
         delay |-> Max(0, capped + jitter)]

\* const retryablePatterns: the text each pattern looks for and whether it
\* has the i flag.
retryablePatterns ==
    << [text |-> "timeout", i |-> TRUE], [text |-> "ECONNRESET", i |-> FALSE],
       [text |-> "ETIMEDOUT", i |-> FALSE], [text |-> "rate limit", i |-> TRUE],
       [text |-> "429", i |-> FALSE], [text |-> "503", i |-> FALSE],
       [text |-> "502", i |-> FALSE], [text |-> "504", i |-> FALSE],
       [text |-> "overloaded", i |-> TRUE],
       [text |-> "temporarily unavailable", i |-> TRUE] >>

\* error.message: the text it contains, and whether in the case of the pattern
\* ("Timeout" contains "timeout" in another case).
Messages ==
    [text : {"timeout", "ECONNRESET", "429", "invalid api key"}, sameCase : {TRUE}]
        \cup [text : {"timeout", "ECONNRESET"}, sameCase : {FALSE}]
        \cup { [text |-> "", sameCase |-> TRUE] }

\* pattern.test(message)
test(pattern, message) ==
    /\ pattern.text = message.text
    /\ pattern.i \/ message.sameCase

\* isRetryable that accepts every error.
isRetryable_Always(message) == TRUE

\* function isRetryable(error), for an error with this message
isRetryable(message) ==
    \E k \in 1..Len(retryablePatterns) : test(retryablePatterns[k], message)

\* What one call of fn does: it resolves, rejects with an Error, or rejects
\* with null.
FnOutcomes ==
    { [kind |-> "value", message |-> [text |-> "", sameCase |-> TRUE]],
      [kind |-> "null", message |-> [text |-> "", sameCase |-> TRUE]] }
        \cup [kind : {"error"}, message : Messages]

\* let lastError = null; an error is known by the call of fn that threw it.
NoError == [call |-> 0, kind |-> "null", message |-> [text |-> "", sameCase |-> TRUE]]
\* The TypeError of reading .message of null in isRetryable.
TypeError == [call |-> 0, kind |-> "TypeError", message |-> [text |-> "", sameCase |-> TRUE]]

NoDelay == [attempt |-> 0, exponential |-> 0, capped |-> 0, jitter |-> 0, delay |-> 0]

\* withRetry(fn, config) just called. With maxAttempts = 0 the loop is skipped
\* and lastError (null) is thrown.
NewRetry(config) ==
    [config |-> config, attempt |-> 0, calls |-> 0, sleeps |-> 0, lastDelay |-> NoDelay,
     lastError |-> NoError, value |-> 0, thrown |-> NoError,
     pc |-> IF config.maxAttempts = 0 THEN "threw" ELSE "running"]

\* No withRetry call (the other components' specifications).
RetryIdle ==
    retry = NewRetry([maxAttempts |-> 0, baseDelayMs |-> 1, maxDelayMs |-> 1500,
                      jitterPercent |-> 0])

\* The for loop with the test attempt <= config.maxAttempts.
nextAttempt_OneMore(r) ==
    IF r.attempt + 1 <= r.config.maxAttempts
    THEN [r EXCEPT !.attempt = @ + 1, !.pc = "running"]
    ELSE [r EXCEPT !.attempt = @ + 1, !.pc = "threw", !.thrown = r.lastError]

\* The end of one pass of the for loop: attempt++ and the test
\* attempt < config.maxAttempts, throw lastError when it fails.
nextAttempt(r) ==
    IF r.attempt + 1 < r.config.maxAttempts
    THEN [r EXCEPT !.attempt = @ + 1, !.pc = "running"]
    ELSE [r EXCEPT !.attempt = @ + 1, !.pc = "threw", !.thrown = r.lastError]

\* One pass of the loop of withRetry that goes on after an error that is not
\* retryable.
RetryAttempt_RetriesAll(outcome, random) ==
    /\ retry.pc = "running"
    /\ LET r == [retry EXCEPT !.calls = @ + 1]
           error == [call |-> r.calls, kind |-> "error", message |-> outcome.message]
       IN  retry' =
             IF outcome.kind = "value"
             THEN [r EXCEPT !.pc = "returned", !.value = r.calls]
             ELSE IF outcome.kind = "null"
                  THEN [r EXCEPT !.pc = "threw", !.lastError = NoError,
                                 !.thrown = TypeError]
             ELSE IF retry.attempt < retry.config.maxAttempts - 1
                  THEN [r EXCEPT !.lastError = error, !.pc = "sleeping",
                                 !.sleeps = @ + 1,
                                 !.lastDelay =
                                     [attempt |-> retry.attempt]
                                         @@ calculateDelay(retry.attempt, retry.config, random)]
                  ELSE nextAttempt([r EXCEPT !.lastError = error])
    /\ UNCHANGED notRetry

\* One pass of the loop of withRetry on rt, up to the sleep, when the call of
\* fn has this outcome: await fn(), and in the catch the isRetryable test and
\* the delay.
attemptResult(rt, outcome, random) ==
    LET r == [rt EXCEPT !.calls = @ + 1]
        error == [call |-> r.calls, kind |-> "error", message |-> outcome.message]
    IN  IF outcome.kind = "value"
        THEN [r EXCEPT !.pc = "returned", !.value = r.calls]
        ELSE IF outcome.kind = "null"
             THEN [r EXCEPT !.pc = "threw", !.lastError = NoError,
                            !.thrown = TypeError]
        ELSE IF ~isRetryable(error.message)
             THEN [r EXCEPT !.lastError = error, !.pc = "threw", !.thrown = error]
        ELSE IF rt.attempt < rt.config.maxAttempts - 1
             THEN [r EXCEPT !.lastError = error, !.pc = "sleeping",
                            !.sleeps = @ + 1,
                            !.lastDelay =
                                [attempt |-> rt.attempt]
                                    @@ calculateDelay(rt.attempt, rt.config, random)]
             ELSE nextAttempt([r EXCEPT !.lastError = error])

\* One pass of the loop of withRetry, up to the sleep.
RetryAttempt(outcome, random) ==
    /\ retry.pc = "running"
    /\ retry' = attemptResult(retry, outcome, random)
    /\ UNCHANGED notRetry

\* await sleep(delay) resolves: the loop goes to its next pass.
RetryWake ==
    /\ retry.pc = "sleeping"
    /\ retry' = nextAttempt(retry)
    /\ UNCHANGED notRetry

\* The message of the Error execute() throws on an open breaker; it contains
\* the text of no retryable pattern.
CircuitOpenMessage == [text |-> "Circuit breaker is OPEN", sameCase |-> TRUE]

\* withRetry(() => breaker.execute(fn), config): one pass of the loop whose
\* attempt is breaker.execute(fn). On an open breaker that is not yet due for
\* half_open, execute throws and fn is not called; otherwise fn is called,
\* has this outcome, and onSuccess or onFailure runs before withRetry sees the
\* value or the error.
BreakerAttempt(outcome, random) ==
    /\ retry.pc = "running"
    /\ IF failsFast(breaker, cbConfig, now)
       THEN /\ retry' = attemptResult(retry, [kind |-> "error", message |-> CircuitOpenMessage],
                                      random)
            /\ cbHist' = [cbHist EXCEPT !.calls = @ + 1, !.last = "circuit_open",
                                        !.from = breaker.state]
            /\ UNCHANGED breaker
       ELSE /\ retry' = attemptResult(retry, outcome, random)
            /\ breaker' = IF outcome.kind = "value"
                          THEN onSuccess(afterCheck(breaker, cbConfig, now), cbConfig)
                          ELSE onFailure(afterCheck(breaker, cbConfig, now), cbConfig, now)
            /\ cbHist' = [cbHist EXCEPT !.calls = @ + 1, !.fnCalls = @ + 1,
                                        !.last = IF outcome.kind = "value" THEN "success"
                                                 ELSE "failure",
                                        !.from = breaker.state]
    /\ UNCHANGED <<cbConfig, now, inflight>>
    /\ UNCHANGED <<layerVars, subsVars, loopVars, sessVars, guardedVars, storeVars,
                   deriveVars, calcVars, pruneVars, coordVars, mainVars>>

\* await sleep(delay) resolves after delay ms on the clock the breaker reads
\* (Date.now()), and the loop goes to its next pass.
BreakerRetryWake ==
    /\ retry.pc = "sleeping"
    /\ retry' = nextAttempt(retry)
    /\ now' = now + retry.lastDelay.delay
    /\ UNCHANGED <<breaker, cbConfig, inflight, cbHist>>
    /\ UNCHANGED <<layerVars, subsVars, loopVars, sessVars, guardedVars, storeVars,
                   deriveVars, calcVars, pruneVars, coordVars, mainVars>>

(***************************************************************************)
(* Calls of calculateDelay on their own.                                   *)
(***************************************************************************)
NoCalc ==
    [called |-> FALSE, attempt |-> 0,
     config |-> [maxAttempts |-> 0, baseDelayMs |-> 1, maxDelayMs |-> 1500,
                 jitterPercent |-> 0],
     random |-> 0, result |-> NoDelay]

CalcIdle == calc = NoCalc

\* const delay = calculateDelay(attempt, config)
CalculateDelay ==
    /\ ~calc.called
    /\ calc' = [calc EXCEPT !.called = TRUE,
                            !.result = [attempt |-> calc.attempt]
                                           @@ calculateDelay(calc.attempt, calc.config,
                                                             calc.random)]
    /\ UNCHANGED notCalc

(***************************************************************************)
(* pruneEphemeral, patterns/03-ephemeral-messages.ts                       *)
(***************************************************************************)
\* m.timestamp: 0 stands for an absent timestamp too (m.timestamp ?? 0).
Timestamps == {0, 1, 2}

\* interface Message, as pruneEphemeral reads it: id is the identity of the
\* object (what new Set(kept).has compares), ephemeral is FALSE when absent.
Message == [id : 1..MaxMessages, ephemeral : BOOLEAN, timestamp : Timestamps]

\* Every Message[] of n entries: an entry is an object of its own (its id is
\* its first index) or an object that is already in the array.
MessageLists(n) ==
    { s \in [1..n -> Message] :
        \A i \in 1..n : \/ s[i].id = i
                        \/ \E k \in 1..(i - 1) : s[k].id = k /\ s[i] = s[k] }

\* interface EphemeralConfig: maxAge 0 stands for an absent maxAge too.
EphemeralConfig == [keepLast : (-1)..MaxKeepLast, maxAge : {0, 1, 2}]

\* Date.now() in pruneEphemeral
PruneClock == {3}

\* Array.prototype.slice(start): from max(len + start, 0) for a negative start,
\* from min(start, len) otherwise (-0 is 0).
slice(s, start) ==
    LET k == IF start < 0
             THEN (IF Len(s) + start > 0 THEN Len(s) + start ELSE 0)
             ELSE (IF start < Len(s) THEN start ELSE Len(s))
    IN  SubSeq(s, k + 1, Len(s))

\* pruneEphemeral whose result is the permanent messages followed by the kept ones.
pruneEphemeral_Regrouped(messages, config, t) ==
    LET isPermanent(m) == ~m.ephemeral
        isEphemeral(m) == m.ephemeral
        permanent == SelectSeq(messages, isPermanent)
        ephemeral == SelectSeq(messages, isEphemeral)
        cutoff == t - config.maxAge
        isRecent(m) == m.timestamp > cutoff
        filtered == IF config.maxAge # 0 THEN SelectSeq(ephemeral, isRecent) ELSE ephemeral
        kept == slice(filtered, -config.keepLast)
    IN  permanent \o kept

\* pruneEphemeral with the sign of the slice forgotten: filtered.slice(keepLast).
pruneEphemeral_PositiveSlice(messages, config, t) ==
    LET isEphemeral(m) == m.ephemeral
        ephemeral == SelectSeq(messages, isEphemeral)
        cutoff == t - config.maxAge
        isRecent(m) == m.timestamp > cutoff
        filtered == IF config.maxAge # 0 THEN SelectSeq(ephemeral, isRecent) ELSE ephemeral
        kept == slice(filtered, config.keepLast)
        keptSet == { kept[i] : i \in 1..Len(kept) }
        isKept(m) == ~m.ephemeral \/ m \in keptSet
    IN  SelectSeq(messages, isKept)

\* function pruneEphemeral(messages, config), t = Date.now()
pruneEphemeral(messages, config, t) ==
    LET isPermanent(m) == ~m.ephemeral
        isEphemeral(m) == m.ephemeral
        permanent == SelectSeq(messages, isPermanent)
        ephemeral == SelectSeq(messages, isEphemeral)
        cutoff == t - config.maxAge
        isRecent(m) == m.timestamp > cutoff
        filtered == IF config.maxAge # 0 THEN SelectSeq(ephemeral, isRecent) ELSE ephemeral
        kept == slice(filtered, -config.keepLast)
        keptSet == { kept[i] : i \in 1..Len(kept) }
        isKept(m) == ~m.ephemeral \/ m \in keptSet
    IN  SelectSeq(messages, isKept)

\* No pruneEphemeral call is made.
NewPrune(messages, config, t) ==
    [messages |-> messages, config |-> config, now |-> t, outs |-> <<>>]
PruneIdle == prune = NewPrune(<<>>, [keepLast |-> 0, maxAge |-> 0], 0)

\* One call of pruneEphemeral with the clock at prune.now: on the caller's list
\* first and then on the list the call before returned.
PruneEphemeral ==
    /\ Len(prune.outs) < MaxPrunes
    /\ LET input == IF prune.outs = <<>> THEN prune.messages
                    ELSE prune.outs[Len(prune.outs)]
       IN  prune' = [prune EXCEPT
                       !.outs = Append(@, pruneEphemeral(input, prune.config, prune.now))]
    /\ UNCHANGED notPrune


(***************************************************************************)
(* Coordinator, unnamed/part_004 (Pattern 7.2)                             *)
(***************************************************************************)
\* Subtask.type
SubtaskTypes == {"analysis", "implementation", "review", "test"}

\* const order of groupByPhase
order(type) ==
    CASE type = "analysis" -> 0
      [] type = "implementation" -> 1
      [] type = "review" -> 2
      [] type = "test" -> 3

\* Every Subtask[] of n subtasks; a subtask is known by its index in the
\* array, which stands for its id.
SubtaskLists(n) == [1..n -> SubtaskTypes]

\* The subtasks (indices) of s whose phase number is k, in the order of s.
RECURSIVE phaseMembers(_, _, _)
phaseMembers(s, k, i) ==
    IF i > Len(s) THEN <<>>
    ELSE (IF order(s[i]) = k THEN <<i>> ELSE <<>>) \o phaseMembers(s, k, i + 1)

\* The phase numbers of s in the order in which the Map first saw them.
RECURSIVE phaseKeys(_, _, _)
phaseKeys(s, i, seen) ==
    IF i > Len(s) THEN <<>>
    ELSE IF order(s[i]) \in seen THEN phaseKeys(s, i + 1, seen)
    ELSE <<order(s[i])>> \o phaseKeys(s, i + 1, seen \cup {order(s[i])})

\* groupByPhase without the sort: the phases in the order the Map holds them.
groupByPhase_Unsorted(subtasks) ==
    LET keys == phaseKeys(subtasks, 1, {})
    IN  [j \in 1..Len(keys) |-> phaseMembers(subtasks, keys[j], 1)]

\* The phases of s numbered k or more, by ascending phase number.
RECURSIVE phasesFrom(_, _)
phasesFrom(s, k) ==
    IF k > 3 THEN <<>>
    ELSE (IF phaseMembers(s, k, 1) # <<>> THEN <<phaseMembers(s, k, 1)>> ELSE <<>>)
         \o phasesFrom(s, k + 1)

\* private groupByPhase(subtasks): the phases that have a subtask, sorted by
\* phase number, each with its subtasks in the order supplied.
groupByPhase(subtasks) == phasesFrom(subtasks, 0)

\* Coordinator.delegate has not been called. status is where each subtask's
\* executeSubtask call is: not made, awaiting worker.execute, or returned with
\* a WorkerResult of success true or false. worker is the Worker instance each
\* executeSubtask call took from this.workers, named by the subtask whose call
\* created it (0 before the call).
NewCoordinator(subtasks) ==
    [subtasks |-> subtasks, pc |-> "idle", phases |-> <<>>, phase |-> 0,
     status |-> [i \in 1..Len(subtasks) |-> "pending"],
     worker |-> [i \in 1..Len(subtasks) |-> 0],
     results |-> <<>>,
     final |-> [made |-> FALSE, success |-> FALSE, subtaskResults |-> <<>>]]
CoordIdle == coord = NewCoordinator(<<>>)

\* phase.map(subtask => this.executeSubtask(subtask)): every executeSubtask call
\* of the phase runs up to its await of worker.execute.
startPhase(status, phase) ==
    [i \in DOMAIN status |->
        IF \E j \in 1..Len(phase) : phase[j] = i THEN "running" ELSE status[i]]

\* this.workers.get(subtask.type), or a new Worker set under that type, for
\* every executeSubtask call of the phase in the order of the phase: the Map
\* holds one Worker per type, created by the first call for that type.
getWorkers(worker, subtasks, phase) ==
    [i \in DOMAIN worker |->
        IF \E j \in 1..Len(phase) : phase[j] = i
        THEN LET had == { k \in DOMAIN worker : worker[k] # 0 /\ subtasks[k] = subtasks[i] }
                 first == CHOOSE j \in 1..Len(phase) :
                              /\ subtasks[phase[j]] = subtasks[i]
                              /\ \A h \in 1..(j - 1) : subtasks[phase[h]] # subtasks[i]
             IN  IF had # {} THEN worker[CHOOSE k \in had : TRUE] ELSE phase[first]
        ELSE worker[i]]

\* The WorkerResults of a phase, in the order of the phase (Promise.all).
phaseResults(status, phase) ==
    [j \in 1..Len(phase) |->
        [subtaskId |-> phase[j], success |-> status[phase[j]] = "succeeded"]]

\* Promise.all of the phase has every result.
phaseSettled(c) ==
    \A j \in 1..Len(c.phases[c.phase]) :
        c.status[c.phases[c.phase][j]] \in {"succeeded", "failed"}

\* async delegate(subtasks), up to its first await: the phases are grouped and
\* the subtasks of the first phase started; with no subtask it returns [].
Delegate ==
    /\ coord.pc = "idle"
    /\ LET phases == groupByPhase(coord.subtasks)
       IN  coord' = IF phases = <<>>
                    THEN [coord EXCEPT !.pc = "returned"]
                    ELSE [coord EXCEPT !.pc = "awaiting", !.phases = phases,
                                       !.phase = 1,
                                       !.status = startPhase(@, phases[1]),
                                       !.worker = getWorkers(@, coord.subtasks, phases[1])]
    /\ UNCHANGED notCoord

\* executeSubtask without its try/catch: a worker's rejection rejects
\* Promise.all, and with it delegate.
WorkerSettles_NoCatch(i, ok) ==
    /\ coord.pc = "awaiting"
    /\ coord.status[i] = "running"
    /\ coord' = IF ok THEN [coord EXCEPT !.status[i] = "succeeded"]
                ELSE [coord EXCEPT !.status[i] = "failed", !.pc = "threw"]
    /\ UNCHANGED notCoord

\* worker.execute(subtask) resolves, or rejects with an Error, and
\* executeSubtask returns the WorkerResult.
WorkerSettles(i, ok) ==
    /\ coord.pc = "awaiting"
    /\ coord.status[i] = "running"
    /\ coord' = [coord EXCEPT !.status[i] = IF ok THEN "succeeded" ELSE "failed"]
    /\ UNCHANGED notCoord

\* delegate that gives up at the first phase with a failure.
PhaseEnds_AbortOnFailure ==
    /\ coord.pc = "awaiting"
    /\ phaseSettled(coord)
    /\ LET phase == coord.phases[coord.phase]
           results == coord.results \o phaseResults(coord.status, phase)
           failures == { j \in 1..Len(phase) : coord.status[phase[j]] = "failed" }
       IN  coord' = IF coord.phase = Len(coord.phases) \/ failures # {}
                    THEN [coord EXCEPT !.results = results, !.pc = "returned"]
                    ELSE [coord EXCEPT !.results = results,
                                       !.phase = @ + 1,
                                       !.status = startPhase(@, coord.phases[coord.phase + 1]),
                                       !.worker = getWorkers(@, coord.subtasks, coord.phases[coord.phase + 1])]
    /\ UNCHANGED notCoord

\* delegate after await Promise.all(...): the phase's results are pushed, its
\* failures only logged, and the next phase is started or results returned.
PhaseEnds ==
    /\ coord.pc = "awaiting"
    /\ phaseSettled(coord)
    /\ LET phase == coord.phases[coord.phase]
           results == coord.results \o phaseResults(coord.status, phase)
       IN  coord' = IF coord.phase = Len(coord.phases)
                    THEN [coord EXCEPT !.results = results, !.pc = "returned"]
                    ELSE [coord EXCEPT !.results = results,
                                       !.phase = @ + 1,
                                       !.status = startPhase(@, coord.phases[coord.phase + 1]),
                                       !.worker = getWorkers(@, coord.subtasks, coord.phases[coord.phase + 1])]
    /\ UNCHANGED notCoord

\* aggregate that reports success as soon as one subtask succeeded.
Aggregate_AnySucceeded ==
    /\ coord.pc = "returned"
    /\ LET successful == { j \in 1..Len(coord.results) : coord.results[j].success }
       IN  coord' = [coord EXCEPT !.pc = "aggregated",
                                  !.final = [made |-> TRUE, success |-> successful # {},
                                             subtaskResults |-> coord.results]]
    /\ UNCHANGED notCoord

\* async aggregate(task, results), on the results delegate returned (coordinate)
Aggregate ==
    /\ coord.pc = "returned"
    /\ LET failed == { j \in 1..Len(coord.results) : ~coord.results[j].success }
       IN  coord' = [coord EXCEPT !.pc = "aggregated",
                                  !.final = [made |-> TRUE, success |-> failed = {},
                                             subtaskResults |-> coord.results]]
    /\ UNCHANGED notCoord


(***************************************************************************)
(* Single-level delegation: SubAgent and MainAgent,                        *)
(* patterns/08-event-sourced-state.ts (Pattern 7.1)                        *)
(***************************************************************************)
\* interface Tool: delegates tells whether execute calls MainAgent.delegate.
\* The tool getTools adds is named 'delegate' and delegates; a caller's own
\* tools do not delegate, whatever their name.
delegateTool == [name |-> "delegate", delegates |-> TRUE]
AgentToolKinds ==
    { [name |-> "read_file", delegates |-> FALSE],
      [name |-> "delegate", delegates |-> FALSE],
      delegateTool }

\* A Tool[]: any list of at most MaxAgentTools tools.
AgentTools == UNION { [1..n -> AgentToolKinds] : n \in 0..MaxAgentTools }

\* MainAgent.getTools()
getTools(tools) == Append(tools, delegateTool)

\* The SubAgent constructor without its filter.
subAgentTools_Unfiltered(tools) == tools

\* SubAgent constructor: this.tools = tools.filter(t => t.name !== 'delegate')
subAgentTools(tools) ==
    LET notDelegate(t) == t.name # "delegate"
    IN  SelectSeq(tools, notDelegate)

\* new MainAgent(tools): no worker yet. workers holds every SubAgent created,
\* with its tools and whether it is still in workerPool.
NewMainAgent(tools) == [tools |-> tools, workers |-> <<>>]
MainIdle == main = NewMainAgent(<<>>)

\* MainAgent.delegate(task, taskTools) up to its await: the worker is created
\* with taskTools || this.tools, pushed to workerPool and started.
MainDelegate(given, taskTools) ==
    /\ Len(main.workers) < MaxDelegations
    /\ LET handed == IF given THEN taskTools ELSE main.tools
       IN  main' = [main EXCEPT !.workers =
                       Append(@, [handed |-> handed, tools |-> subAgentTools(handed),
                                  createdBy |-> "main", pooled |-> TRUE,
                                  result |-> "none"])]
    /\ UNCHANGED notMain

\* SubAgent.execute returns its TaskResult (runLoop uses no tool), and
\* MainAgent.delegate removes the worker from workerPool.
SubAgentReturns(w) ==
    /\ w \in 1..Len(main.workers)
    /\ main.workers[w].pooled
    /\ main' = [main EXCEPT !.workers[w].pooled = FALSE,
                            !.workers[w].result = "success"]
    /\ UNCHANGED notMain


(***************************************************************************)
(* The circuit breaker's specification: overlapping execute() calls, reset() *)
(* and the clock, in every interleaving.                                   *)
(***************************************************************************)
BreakerInit ==
    /\ breaker = NewBreaker
    /\ cbConfig \in CircuitBreakerConfig
    /\ now \in 0..1
    /\ inflight = 0
    /\ cbHist = NewHist
    /\ LayersIdle
    /\ SubsIdle
    /\ LoopsIdle
    /\ SessIdle
    /\ GuardedIdle
    /\ StoreIdle
    /\ RetryIdle
    /\ DeriveIdle
    /\ CalcIdle
    /\ PruneIdle
    /\ CoordIdle
    /\ MainIdle

\* execute(fn), up to the await: the state check, then fn() is called.
ExecuteEnter ==
    /\ cbHist.calls < MaxCalls
    /\ inflight < MaxInflight
    /\ ~failsFast(breaker, cbConfig, now)
    /\ breaker' = afterCheck(breaker, cbConfig, now)
    /\ inflight' = inflight + 1
    /\ cbHist' = [cbHist EXCEPT !.calls = @ + 1, !.fnCalls = @ + 1, !.last = "invoked",
                                !.from = breaker.state,
                                !.halfOpenSucc = IF breaker.state = "open" THEN 0 ELSE @]
    /\ UNCHANGED <<cbConfig, now>>
    /\ UNCHANGED notBreaker

\* execute(fn) on an open breaker before openDurationMs has elapsed: throws.
ExecuteFailFast ==
    /\ cbHist.calls < MaxCalls
    /\ failsFast(breaker, cbConfig, now)
    /\ cbHist' = [cbHist EXCEPT !.calls = @ + 1, !.last = "circuit_open",
                                !.from = breaker.state]
    /\ UNCHANGED <<breaker, cbConfig, now, inflight>>
    /\ UNCHANGED notBreaker

\* fn() resolved: onSuccess(), the result is returned.
ExecuteResolve ==
    /\ inflight > 0
    /\ breaker' = onSuccess(breaker, cbConfig)
    /\ inflight' = inflight - 1
    /\ cbHist' = [cbHist EXCEPT !.last = "success", !.from = breaker.state,
                                !.consecFails = 0,
                                !.halfOpenSucc = IF breaker.state = "half_open"
                                                 THEN @ + 1 ELSE @]
    /\ UNCHANGED <<cbConfig, now>>
    /\ UNCHANGED notBreaker

\* fn() rejected: onFailure(), the error is rethrown.
ExecuteReject ==
    /\ inflight > 0
    /\ breaker' = onFailure(breaker, cbConfig, now)
    /\ inflight' = inflight - 1
    /\ cbHist' = [cbHist EXCEPT !.last = "failure", !.from = breaker.state,
                                !.totalFails = @ + 1, !.consecFails = @ + 1]
    /\ UNCHANGED <<cbConfig, now>>
    /\ UNCHANGED notBreaker

\* reset()
Reset ==
    /\ breaker' = resetBreaker(breaker)
    /\ cbHist' = [cbHist EXCEPT !.last = "reset", !.from = breaker.state,
                                !.consecFails = 0]
    /\ UNCHANGED <<cbConfig, now, inflight>>
    /\ UNCHANGED notBreaker

\* The clock advances between any two steps.
Tick ==
    /\ now < MaxTime
    /\ now' = now + 1
    /\ UNCHANGED <<breaker, cbConfig, inflight, cbHist>>
    /\ UNCHANGED notBreaker

BreakerNext ==
    \/ ExecuteEnter
    \/ ExecuteFailFast
    \/ ExecuteResolve
    \/ ExecuteReject
    \/ Reset
    \/ Tick

SpecBreaker == BreakerInit /\ [][BreakerNext]_vars

(***************************************************************************)
(* The subsumption layers' specification: one checkAllLayers call on any    *)
(* set of guards.                                                          *)
(***************************************************************************)
LayersInit ==
    /\ \E n \in 0..MaxLayers : layerSet \in LayerSets(n)
    /\ layerOut = NoLayerRun
    /\ BreakerIdle
    /\ SubsIdle
    /\ LoopsIdle
    /\ SessIdle
    /\ GuardedIdle
    /\ StoreIdle
    /\ RetryIdle
    /\ DeriveIdle
    /\ CalcIdle
    /\ PruneIdle
    /\ CoordIdle
    /\ MainIdle

\* One call checkAllLayers(action, layerSet).
CheckAllLayers ==
    /\ ~layerOut.called
    /\ LET r == checkAllLayers(layerSet)
       IN  layerOut' = [called |-> TRUE, invoked |-> r.invoked, result |-> r.result]
    /\ UNCHANGED layerSet
    /\ UNCHANGED notLayers

LayersNext == CheckAllLayers

SpecLayers == LayersInit /\ [][LayersNext]_vars

(***************************************************************************)
(* The specification of agentWithSubsumption: calls on any actions, with   *)
(* an execute that resolves or rejects.                                    *)
(***************************************************************************)
SubsInit ==
    /\ subs = NoSubsCall
    /\ BreakerIdle
    /\ LayersIdle
    /\ LoopsIdle
    /\ SessIdle
    /\ GuardedIdle
    /\ StoreIdle
    /\ RetryIdle
    /\ DeriveIdle
    /\ CalcIdle
    /\ PruneIdle
    /\ CoordIdle
    /\ MainIdle

SubsNext == \E action \in Action, how \in ExecuteOutcomes : AgentWithSubsumption(action, how)

SpecSubs == SubsInit /\ [][SubsNext]_vars

(***************************************************************************)
(* The agent loops' specification: one run of any of the three loops, on   *)
(* any tool list, with a decision source that answers anything.            *)
(***************************************************************************)
LoopsInit ==
    /\ \E variant \in Variants, tools \in CallerTools, maxIterations \in 0..MaxIterations :
           run = NewRun(variant, tools, maxIterations)
    /\ BreakerIdle
    /\ LayersIdle
    /\ SubsIdle
    /\ SessIdle
    /\ GuardedIdle
    /\ StoreIdle
    /\ RetryIdle
    /\ DeriveIdle
    /\ CalcIdle
    /\ PruneIdle
    /\ CoordIdle
    /\ MainIdle

LoopsNext ==
    \/ \E throws \in BOOLEAN, done \in BOOLEAN, nCalls \in 0..MaxToolCalls :
           AgentInvoke(throws, done, nCalls)
    \/ \E call \in ToolCalls : AgentToolCall(call)
    \/ \E throws \in BOOLEAN, nCalls \in 0..MaxToolCalls : ExplicitInvoke(throws, nCalls)
    \/ \E call \in ToolCalls : ExplicitToolCall(call)
    \/ \E throws \in BOOLEAN, done \in BOOLEAN, nCalls \in 0..MaxToolCalls :
           PruningInvoke(throws, done, nCalls)
    \/ \E call \in ToolCalls : PruningToolCall(call)

SpecLoops == LoopsInit /\ [][LoopsNext]_vars

(***************************************************************************)
(* The session's specification: any budget and ceiling, a decision source  *)
(* that proposes any action or signals completion.                         *)
(***************************************************************************)
SessInit ==
    /\ \E maxTokens \in 1..MaxTokens, maxApiCalls \in 0..MaxApiCalls,
          maxIterations \in 1..MaxIterations :
           sess = NewSession(maxTokens, maxApiCalls, maxIterations)
    /\ BreakerIdle
    /\ LayersIdle
    /\ SubsIdle
    /\ LoopsIdle
    /\ GuardedIdle
    /\ StoreIdle
    /\ RetryIdle
    /\ DeriveIdle
    /\ CalcIdle
    /\ PruneIdle
    /\ CoordIdle
    /\ MainIdle

SessNext ==
    \/ \E done \in BOOLEAN, action \in GuardAction, tokens \in 0..1 :
           SessionTick(done, action, tokens)
    \/ \E granted \in BOOLEAN, tokens \in 0..1 : SessionResume(granted, tokens)

SpecSess == SessInit /\ [][SessNext]_vars



(***************************************************************************)
(* One checkAllLayers call on guards whose results may ask for a           *)
(* confirmation.                                                           *)
(***************************************************************************)
LayersConfirmInit ==
    /\ \E n \in 0..MaxConfirmLayers : layerSet \in ConfirmLayerSets(n)
    /\ layerOut = NoLayerRun
    /\ BreakerIdle
    /\ SubsIdle
    /\ LoopsIdle
    /\ SessIdle
    /\ GuardedIdle
    /\ StoreIdle
    /\ RetryIdle
    /\ DeriveIdle
    /\ CalcIdle
    /\ PruneIdle
    /\ CoordIdle
    /\ MainIdle

SpecLayersConfirm == LayersConfirmInit /\ [][LayersNext]_vars

(***************************************************************************)
(* What a checkAllLayers call did, read off layerSet and layerOut.         *)
(***************************************************************************)
(* The guarded caller's specification: exampleGuardedLoop is called with   *)
(* any action and Budget, at any time.                                     *)
(***************************************************************************)
GuardedInit ==
    /\ guarded = NoGuardedRun
    /\ BreakerIdle
    /\ LayersIdle
    /\ SubsIdle
    /\ LoopsIdle
    /\ SessIdle
    /\ StoreIdle
    /\ RetryIdle
    /\ DeriveIdle
    /\ CalcIdle
    /\ PruneIdle
    /\ CoordIdle
    /\ MainIdle

GuardedNext ==
    \E action \in GuardAction, budget \in GuardBudgets, t \in GuardTimes :
        ExampleGuardedLoop(action, budget, t)

SpecGuarded == GuardedInit /\ [][GuardedNext]_vars


(***************************************************************************)
(* The event store's specification: one store at a time on one path, with  *)
(* or without persistence; append and persist calls may overlap (their     *)
(* writes are in flight together) and load() is called at any time. The   *)
(* file at the path is as an earlier process left it.                      *)
(***************************************************************************)
StoreInit ==
    /\ \E persistPath \in BOOLEAN, file \in InitialFiles : es = NewStore(persistPath, file)
    /\ BreakerIdle
    /\ LayersIdle
    /\ SubsIdle
    /\ LoopsIdle
    /\ SessIdle
    /\ GuardedIdle
    /\ RetryIdle
    /\ DeriveIdle
    /\ CalcIdle
    /\ PruneIdle
    /\ CoordIdle
    /\ MainIdle

StoreNext ==
    \/ \E event \in EventInputs, t \in 1..MaxStoreTime : AppendCall(event, t)
    \/ PersistCall
    \/ \E k \in 1..MaxWrites : WriteOpen(k)
    \/ \E k \in 1..MaxWrites : WriteData(k)
    \/ \E k \in 1..MaxWrites : WriteReturn(k)
    \/ Load

SpecStore == StoreInit /\ [][StoreNext]_vars


(***************************************************************************)
(* The specification of deriveState: it is called again and again on an    *)
(* array of events that grows between the calls.                           *)
(***************************************************************************)
DeriveInit ==
    /\ ds = NewDerive(<<>>)
    /\ BreakerIdle
    /\ LayersIdle
    /\ SubsIdle
    /\ LoopsIdle
    /\ SessIdle
    /\ GuardedIdle
    /\ StoreIdle
    /\ RetryIdle
    /\ CalcIdle
    /\ PruneIdle
    /\ CoordIdle
    /\ MainIdle

DeriveNext ==
    \/ DeriveState
    \/ \E event \in TimedEvents : DeriveAppend(event)

SpecDerive == DeriveInit /\ [][DeriveNext]_vars


(***************************************************************************)
(* The specification of withRetry: one call with any config, fn resolving  *)
(* or rejecting at each attempt.                                           *)
(***************************************************************************)
RetryInit ==
    /\ \E config \in RetryConfig : retry = NewRetry(config)
    /\ BreakerIdle
    /\ LayersIdle
    /\ SubsIdle
    /\ LoopsIdle
    /\ SessIdle
    /\ GuardedIdle
    /\ StoreIdle
    /\ DeriveIdle
    /\ CalcIdle
    /\ PruneIdle
    /\ CoordIdle
    /\ MainIdle

RetryNext ==
    \/ \E outcome \in FnOutcomes, random \in Randoms : RetryAttempt(outcome, random)
    \/ RetryWake

SpecRetry == RetryInit /\ [][RetryNext]_vars

(***************************************************************************)
(* The specification of calculateDelay: a call with any attempt index,     *)
(* config and random number.                                               *)
(***************************************************************************)
CalcInit ==
    /\ \E attempt \in 0..MaxAttemptIndex, config \in RetryConfig, random \in Randoms :
           calc = [NoCalc EXCEPT !.attempt = attempt, !.config = config,
                                 !.random = random]
    /\ BreakerIdle
    /\ LayersIdle
    /\ SubsIdle
    /\ LoopsIdle
    /\ SessIdle
    /\ GuardedIdle
    /\ StoreIdle
    /\ DeriveIdle
    /\ PruneIdle
    /\ CoordIdle
    /\ MainIdle
    /\ RetryIdle

CalcNext == CalculateDelay

SpecCalc == CalcInit /\ [][CalcNext]_vars


(***************************************************************************)
(* pruneEphemeral's specification: the function is applied, with the clock *)
(* held, to any message list and config and then to what it returned.      *)
(***************************************************************************)
PruneInit ==
    /\ \E n \in 0..MaxMessages :
         \E messages \in MessageLists(n), config \in EphemeralConfig, t \in PruneClock :
            prune = NewPrune(messages, config, t)
    /\ BreakerIdle
    /\ LayersIdle
    /\ SubsIdle
    /\ LoopsIdle
    /\ SessIdle
    /\ GuardedIdle
    /\ StoreIdle
    /\ RetryIdle
    /\ DeriveIdle
    /\ CalcIdle
    /\ CoordIdle
    /\ MainIdle

PruneNext == PruneEphemeral

SpecPrune == PruneInit /\ [][PruneNext]_vars


(***************************************************************************)
(* The coordinator's specification: delegate is called with any subtasks,  *)
(* the workers settle in any order, and the results are aggregated.        *)
(***************************************************************************)
CoordInit ==
    /\ \E n \in 0..MaxSubtasks : \E subtasks \in SubtaskLists(n) :
           coord = NewCoordinator(subtasks)
    /\ BreakerIdle
    /\ LayersIdle
    /\ SubsIdle
    /\ LoopsIdle
    /\ SessIdle
    /\ GuardedIdle
    /\ StoreIdle
    /\ RetryIdle
    /\ DeriveIdle
    /\ CalcIdle
    /\ PruneIdle
    /\ MainIdle

CoordNext ==
    \/ Delegate
    \/ \E i \in 1..Len(coord.subtasks), ok \in BOOLEAN : WorkerSettles(i, ok)
    \/ PhaseEnds
    \/ Aggregate

SpecCoord == CoordInit /\ [][CoordNext]_vars


(***************************************************************************)
(* The main agent's specification: a MainAgent built on any tools          *)
(* delegates tasks, with or without a tool list for the worker, and the    *)
(* workers return in any order.                                            *)
(***************************************************************************)
MainInit ==
    /\ \E tools \in AgentTools : main \in {NewMainAgent(tools), NewMainAgent(getTools(tools))}
    /\ BreakerIdle
    /\ LayersIdle
    /\ SubsIdle
    /\ LoopsIdle
    /\ SessIdle
    /\ GuardedIdle
    /\ StoreIdle
    /\ RetryIdle
    /\ DeriveIdle
    /\ CalcIdle
    /\ PruneIdle
    /\ CoordIdle

MainNext ==
    \/ \E given \in BOOLEAN, taskTools \in AgentTools : MainDelegate(given, taskTools)
    \/ \E taskTools \in AgentTools : MainDelegate(TRUE, getTools(taskTools))
    \/ \E w \in 1..MaxDelegations : SubAgentReturns(w)

SpecMain == MainInit /\ [][MainNext]_vars


(***************************************************************************)
(* The specification of withRetry around the circuit breaker: one call of  *)
(* withRetry(() => breaker.execute(fn), config) on a closed breaker that   *)
(* may already have counted failures; the delays are in the unit of the    *)
(* breaker's clock.                                                        *)
(***************************************************************************)
WrappedRetryConfig ==
    [maxAttempts : 1..MaxAttempts, baseDelayMs : {1}, maxDelayMs : 1..MaxRetryDelay,
     jitterPercent : {0}]

RetryBreakerInit ==
    /\ \E config \in WrappedRetryConfig : retry = NewRetry(config)
    /\ cbConfig \in CircuitBreakerConfig
    /\ \E failures \in 0..(cbConfig.failureThreshold - 1) :
           breaker = [NewBreaker EXCEPT !.failures = failures]
    /\ now \in 0..1
    /\ inflight = 0
    /\ cbHist = NewHist
    /\ LayersIdle
    /\ SubsIdle
    /\ LoopsIdle
    /\ SessIdle
    /\ GuardedIdle
    /\ StoreIdle
    /\ DeriveIdle
    /\ CalcIdle
    /\ PruneIdle
    /\ CoordIdle
    /\ MainIdle

RetryBreakerNext ==
    \/ \E outcome \in FnOutcomes, random \in Randoms : BreakerAttempt(outcome, random)
    \/ BreakerRetryWake

SpecRetryBreaker == RetryBreakerInit /\ [][RetryBreakerNext]_vars


(***************************************************************************)
\* The layer numbers of the guards invoked, in the order of invocation.
InvokedLayers == [i \in 1..Len(layerOut.invoked) |-> layerSet[layerOut.invoked[i]].layer]
\* The guards invoked that rejected.
Rejecting == { i \in 1..Len(layerOut.invoked) : ~layerSet[layerOut.invoked[i]].check.allowed }
\* After a rejection at layer p no guard of a greater layer is invoked, and the
\* result is a rejection with the first rejecting guard's reason.
RejectionIsFinal ==
    \A i \in Rejecting :
        /\ \A j \in 1..Len(layerOut.invoked) : j > i => InvokedLayers[j] <= InvokedLayers[i]
        /\ i = Len(layerOut.invoked)
        /\ ~layerOut.result.allowed
        /\ layerOut.result.reason = layerSet[layerOut.invoked[i]].check.reason
\* A guard that was not invoked has no smaller layer than any guard that was,
\* whatever the order the guards were supplied in.
LowerLayersFirst ==
    \A k \in 1..Len(layerSet) :
        (\A j \in 1..Len(layerOut.invoked) : layerOut.invoked[j] # k)
        => \A j \in 1..Len(layerOut.invoked) : InvokedLayers[j] <= layerSet[k].layer
\* The result is a rejection only when an invoked guard rejected.
RejectedOnlyByAGuard == ~layerOut.result.allowed => Rejecting # {}

(***************************************************************************)
(* C1 as stated: the guards are evaluated in strictly ascending order of   *)
(* layer number, a rejection at layer p leaves every guard of a greater    *)
(* layer uninvoked, and the result is that rejection. Violated by two      *)
(* guards of the same layer, which are evaluated one after the other.      *)
(***************************************************************************)
C1_StrictlyAscending ==
    layerOut.called =>
        /\ \A i, j \in 1..Len(layerOut.invoked) : i < j => InvokedLayers[i] < InvokedLayers[j]
        /\ LowerLayersFirst
        /\ RejectionIsFinal
        /\ RejectedOnlyByAGuard

(***************************************************************************)
(* C1 amended: the guards are evaluated in non-decreasing order of layer   *)
(* number (strictly ascending between guards of different layers),         *)
(* whatever order they are supplied in; once a guard rejects, no guard of  *)
(* a greater layer, and no further guard at all, is invoked, and the       *)
(* result is a rejection with that guard's reason.                         *)
(***************************************************************************)
C1_AscendingShortCircuit ==
    layerOut.called =>
        /\ \A i, j \in 1..Len(layerOut.invoked) : i < j => InvokedLayers[i] <= InvokedLayers[j]
        /\ \A i, j \in 1..Len(layerOut.invoked) : i < j => layerOut.invoked[i] # layerOut.invoked[j]
        /\ LowerLayersFirst
        /\ RejectionIsFinal
        /\ RejectedOnlyByAGuard

\* Guards supplied in descending order of layer; the second layer evaluated
\* rejects and the guard of the greatest layer is never invoked.
C1_Witness ==
    /\ layerOut.called
    /\ Len(layerSet) = 3
    /\ layerSet[1].layer > layerSet[2].layer
    /\ layerSet[2].layer > layerSet[3].layer
    /\ layerOut.invoked = <<3, 2>>
    /\ ~layerOut.result.allowed
    /\ layerOut.result.reason = <<"reason", 2>>

(***************************************************************************)
(* Steps of the circuit breaker, as the observation shows them.            *)
(***************************************************************************)
CallBegins == cbHist'.calls = cbHist.calls + 1
CallFails == cbHist'.totalFails = cbHist.totalFails + 1
CallSucceeds == cbHist'.last = "success" /\ inflight' = inflight - 1
Elapsed == now - breaker.lastFailureTime

(***************************************************************************)
(* C2: while the breaker is open and less than openDurationMs has elapsed  *)
(* since lastFailureTime, every execute(fn) call throws the circuit-open   *)
(* error, does not call fn, and leaves state, failures, successes and      *)
(* lastFailureTime as they were.                                           *)
(***************************************************************************)
C2_FailFastWhileOpen ==
    [][ (CallBegins /\ breaker.state = "open" /\ Elapsed < cbConfig.openDurationMs)
        => /\ cbHist'.last = "circuit_open"
           /\ cbHist'.fnCalls = cbHist.fnCalls
           /\ inflight' = inflight
           /\ breaker' = breaker ]_vars

C2_Witness ==
    /\ cbHist.last = "circuit_open"
    /\ breaker.state = "open"
    /\ Elapsed < cbConfig.openDurationMs
    /\ cbHist.fnCalls < cbHist.calls

(***************************************************************************)
(* C3: from closed, a failed call opens the breaker exactly when the       *)
(* number of consecutive failed calls reaches failureThreshold; for every  *)
(* smaller count it stays closed; lastFailureTime is the time of the       *)
(* failure that opened it.                                                 *)
(***************************************************************************)
C3_OpensAtThreshold ==
    [][ (CallFails /\ breaker.state = "closed")
        => /\ breaker'.state \in {"closed", "open"}
           /\ (breaker'.state = "open")
                <=> (cbHist'.consecFails = cbConfig.failureThreshold)
           /\ breaker'.state = "open" => breaker'.lastFailureTime = now ]_vars

C3_Witness ==
    /\ cbHist.last = "failure"
    /\ cbHist.from = "closed"
    /\ breaker.state = "open"
    /\ cbConfig.failureThreshold = 3
    /\ cbHist.consecFails = 3
    /\ breaker.lastFailureTime = now

(***************************************************************************)
(* C4: in half_open any failed call moves the breaker back to open and     *)
(* records lastFailureTime, whatever the success count; the next call,     *)
(* made before openDurationMs has elapsed, fails fast.                     *)
(***************************************************************************)
C4_HalfOpenFailureReopens ==
    [][ /\ (CallFails /\ breaker.state = "half_open")
           => /\ breaker'.state = "open"
              /\ breaker'.lastFailureTime = now
        /\ (/\ CallBegins
            /\ cbHist.last = "failure" /\ cbHist.from = "half_open"
            /\ Elapsed < cbConfig.openDurationMs)
           => /\ cbHist'.last = "circuit_open"
              /\ cbHist'.fnCalls = cbHist.fnCalls ]_vars

C4_Witness ==
    /\ cbHist.last = "failure"
    /\ cbHist.from = "half_open"
    /\ breaker.state = "open"
    /\ breaker.successes >= 1
    /\ breaker.lastFailureTime = now

(***************************************************************************)
(* C5: an execute(fn) call on an open breaker, made when at least          *)
(* openDurationMs has elapsed since lastFailureTime, moves the breaker to  *)
(* half_open, sets the success count to 0 and calls fn.                    *)
(***************************************************************************)
C5_OpenToHalfOpen ==
    [][ (CallBegins /\ breaker.state = "open" /\ Elapsed >= cbConfig.openDurationMs)
        => /\ breaker'.state = "half_open"
           /\ breaker'.successes = 0
           /\ cbHist'.last = "invoked"
           /\ cbHist'.fnCalls = cbHist.fnCalls + 1
           /\ inflight' = inflight + 1 ]_vars

C5_Witness ==
    /\ cbHist.last = "invoked"
    /\ cbHist.from = "open"
    /\ breaker.state = "half_open"
    /\ breaker.successes = 0
    /\ cbHist.totalFails >= 2

(***************************************************************************)
(* C6: in half_open a successful call closes the breaker exactly when the  *)
(* number of successful calls since it entered half_open reaches           *)
(* successThreshold; with fewer it stays half_open.                        *)
(***************************************************************************)
C6_ClosesAtSuccessThreshold ==
    [][ (CallSucceeds /\ breaker.state = "half_open")
        => /\ breaker'.state \in {"half_open", "closed"}
           /\ (breaker'.state = "closed")
                <=> (cbHist'.halfOpenSucc = cbConfig.successThreshold) ]_vars

C6_Witness ==
    /\ cbHist.last = "success"
    /\ cbHist.from = "half_open"
    /\ breaker.state = "closed"
    /\ cbConfig.successThreshold = 2
    /\ cbHist.halfOpenSucc = 2

(***************************************************************************)
(* C7: in closed any successful call sets the failure count to 0 and       *)
(* leaves the breaker closed, so a failure that follows a success does not *)
(* open a breaker whose failureThreshold is 2 or more, however many calls  *)
(* failed before the success.                                              *)
(***************************************************************************)
C7_SuccessResetsFailures ==
    [][ /\ (CallSucceeds /\ breaker.state = "closed")
           => /\ breaker'.state = "closed"
              /\ breaker'.failures = 0
        /\ (/\ CallFails
            /\ breaker.state = "closed"
            /\ cbHist.last = "success"
            /\ cbConfig.failureThreshold >= 2)
           => breaker'.state = "closed" ]_vars

C7_Witness ==
    /\ cbHist.last = "failure"
    /\ cbHist.from = "closed"
    /\ breaker.state = "closed"
    /\ cbHist.totalFails >= cbConfig.failureThreshold
    /\ breaker.failures = 1

(***************************************************************************)
(* C8: every run of an agent loop makes at most the configured maximum     *)
(* number of iterations (requests to the decision source), and a run that  *)
(* has made them all without a completion signal has ended with the        *)
(* max-iterations outcome. Violated by agent and agentWithPruning, whose   *)
(* while (true) has no ceiling.                                            *)
(***************************************************************************)
C8_EveryRunTerminates ==
    run.maxIterations >= 1 =>
        /\ run.i <= run.maxIterations
        /\ (run.i = run.maxIterations /\ run.pending = 0 /\ run.doneSignals = 0
            /\ run.pc # "threw")
           => (run.pc = "returned" /\ run.result = MaxIterationsMessage)

PipelineRejects(action) == ~checkAllLayers(subsumptionLayers(action)).result.allowed

C10_RejectedNeverExecuted ==
    [][ /\ (subs'.calls = subs.calls + 1 /\ PipelineRejects(subs'.action))
           => (/\ subs'.executed = subs.executed
               /\ subs'.outcome.kind = "returned"
               /\ subs'.outcome.value[1] = "Blocked by"
               /\ subs'.outcome.value[4] \in
                     { safetyCheck(subs'.action).reason,
                       policyCheck(subs'.action).reason }
               /\ subs'.outcome.value[4] # <<"none">>)
        /\ (/\ subs.calls > 0
            /\ PipelineRejects(subs.action)
            /\ subs'.calls = subs.calls + 1
            /\ ~PipelineRejects(subs'.action))
           => (/\ subs'.executed = subs.executed + 1
               /\ subs'.outcome \in
                     { executeResult(subs'.action, how) : how \in ExecuteOutcomes }) ]_vars

\* An executed action, then a read of /etc/passwd blocked by the policy layer.
C10_Witness ==
    /\ subs.calls = 2
    /\ subs.executed = 1
    /\ subs.action.type = "read_file"
    /\ subs.action.target = "/etc/passwd"
    /\ subs.outcome = [kind |-> "returned",
                       value |-> <<"Blocked by", "policy", "layer:",
                                   <<"Policy: Access to system directories denied">> >>]

(***************************************************************************)
(* C11: an action for which the guards' result carries                     *)
(* requiresConfirmation = true is never executed in that call: the caller  *)
(* returns the pending-confirmation outcome instead; and whenever the      *)
(* caller does go on to execute, the guards allowed the action without     *)
(* asking for a confirmation (its type is not on the policy's              *)
(* requiresConfirmation list).                                             *)
(***************************************************************************)
C11_ConfirmationSuspends ==
    [][guarded'.calls = guarded.calls + 1 =>
        /\ guarded'.result.requiresConfirmation =>
              /\ guarded'.outcome = "pending"
              /\ guarded'.executions = guarded.executions
        /\ (guarded'.result.allowed
            /\ guarded'.action.type \in ExamplePolicy.requiresConfirmation) =>
              /\ guarded'.result.requiresConfirmation
              /\ guarded'.executions = guarded.executions
        /\ guarded'.executions # guarded.executions =>
              /\ guarded'.executions = guarded.executions + 1
              /\ guarded'.outcome = "proceeds"
              /\ guarded'.result.allowed
              /\ ~guarded'.result.requiresConfirmation]_vars

\* A "deploy" action is paused after an earlier action was executed.
C11_Witness ==
    /\ guarded.calls = 2
    /\ guarded.executions = 1
    /\ guarded.action.type = "deploy"
    /\ guarded.result.requiresConfirmation
    /\ guarded.outcome = "pending"


(***************************************************************************)
(* Steps of the agent loops, read off run and run'.                        *)
(***************************************************************************)
\* The loop returns a completion result (not the max-iterations fallback).
Completes ==
    /\ run.pc = "running"
    /\ run'.pc = "returned"
    /\ run'.result # MaxIterationsMessage

\* The response carries the done flag.
DoneFlag ==
    \E nCalls \in 0..MaxToolCalls :
        AgentInvoke(FALSE, TRUE, nCalls) \/ PruningInvoke(FALSE, TRUE, nCalls)

\* The response calls the tool named 'done'.
DoneToolCalled == \E call \in ToolCalls : call.name = "done" /\ ExplicitToolCall(call)

\* The response calls a tool whose execute throws TaskComplete.
CompletingToolCalled ==
    \E call \in ToolCalls :
        /\ find(allTools(run.tools), call.name).onExecute = "completes"
        /\ ExplicitToolCall(call)

\* A response that neither signals completion nor proposes an action.
EmptyResponse ==
    AgentInvoke(FALSE, FALSE, 0) \/ ExplicitInvoke(FALSE, 0) \/ PruningInvoke(FALSE, FALSE, 0)

\* The next request to the decision source.
NextRequest ==
    \/ \E throws \in BOOLEAN, done \in BOOLEAN, nCalls \in 0..MaxToolCalls :
           AgentInvoke(throws, done, nCalls) \/ PruningInvoke(throws, done, nCalls)
    \/ \E throws \in BOOLEAN, nCalls \in 0..MaxToolCalls : ExplicitInvoke(throws, nCalls)

\* The loop goes on: it is about to request the decision source again (the
\* unbounded loops are followed for IterCap iterations).
RequestFollows ==
    /\ run.pc = "running"
    /\ run.pending = 0
    /\ (run.variant = "agentWithExplicitTermination" \/ run.i < IterCap)
           => ENABLED NextRequest

\* agentWithExplicitTermination has used all its iterations.
AtCeiling == run.variant = "agentWithExplicitTermination" /\ run.i >= run.maxIterations

(***************************************************************************)
(* C12 as stated: the loop returns a completion result only when the       *)
(* response carries the done flag or calls the done tool, and a response   *)
(* with empty toolCalls never ends the loop and is followed by another     *)
(* request to the decision source. Violated by agentWithExplicitTermination*)
(* at its last iteration, and by a caller's tool that throws TaskComplete. *)
(***************************************************************************)
C12_ExplicitCompletionOnly ==
    [][/\ Completes => (DoneFlag \/ DoneToolCalled)
       /\ EmptyResponse => RequestFollows']_vars

(***************************************************************************)
(* C12 amended: the loop returns a completion result only when the         *)
(* response carries the done flag (agent, agentWithPruning) or calls a     *)
(* tool whose execute throws TaskComplete, as the done tool does           *)
(* (agentWithExplicitTermination); a response with empty toolCalls never   *)
(* yields a completion result: it is followed by another request to the    *)
(* decision source, except at the last of the maxIterations iterations of  *)
(* agentWithExplicitTermination, where the loop returns the max-iterations *)
(* fallback.                                                               *)
(***************************************************************************)
C12_CompletionOnlyBySignal ==
    [][/\ Completes => (DoneFlag \/ CompletingToolCalled)
       /\ EmptyResponse =>
             /\ ~Completes
             /\ IF AtCeiling'
                THEN run'.pc = "returned" /\ run'.result = MaxIterationsMessage
                ELSE RequestFollows']_vars

\* agentWithExplicitTermination made two requests, ran no tool for the first
\* response and returned the done tool's result for the second.
C12_Witness ==
    /\ run.variant = "agentWithExplicitTermination"
    /\ run.tools = <<>>
    /\ run.i = 2
    /\ run.toolRuns = 1
    /\ run.doneSignals = 1
    /\ run.pc = "returned"
    /\ run.result = <<"args.result">>


(***************************************************************************)
(* What a step of the event store did, read off es and es'.                *)
(***************************************************************************)
\* s is a prefix (a suffix) of t.
IsPrefix(s, t) == Len(s) <= Len(t) /\ SubSeq(t, 1, Len(s)) = s
IsSuffix(s, t) == Len(s) <= Len(t) /\ SubSeq(t, Len(t) - Len(s) + 1, Len(t)) = s

\* The appends whose promise resolves in this step.
ReturningAppends == es'.returned \ es.returned

\* A process that starts after a crash: new EventStore(path), then load().
Reloaded(file) == loadEvents(<<>>, file)

(***************************************************************************)
(* C13: the events all() returns end with every event appended to the      *)
(* store, each once and in the order of the append calls, and no step of   *)
(* the store removes, reorders or changes an event all() returned before.  *)
(* Violated by load(), which replaces this.events by what it reads.        *)
(***************************************************************************)
C13_AppendOnly ==
    [][/\ IsPrefix(all(es), all(es'))
       /\ IsSuffix(es'.appended, all(es'))]_vars

(***************************************************************************)
(* C14: with a persistPath, when an append returns the file holds the      *)
(* appended event as its last line, and a process that reloads the file    *)
(* then has the event in its log. Violated when appends overlap.           *)
(***************************************************************************)
C14_PersistedOnReturn ==
    [][es.persistPath =>
        \A n \in ReturningAppends :
            LET line == stringify(es'.appended[n])
                lines == es'.file.lines
            IN  /\ es'.file.exists
                /\ lines # <<>>
                /\ lines[Len(lines)] = line
                /\ Reloaded(es'.file).read = "parsed"
                /\ \E i \in 1..Len(lines) : Reloaded(es'.file).events[i] = line.json]_vars

(***************************************************************************)
(* C15: a load() that reads a file with a line that does not parse fails   *)
(* with an error. Violated: the catch of load() drops the error.           *)
(***************************************************************************)
C15_LoadRejectsCorruptLog ==
    es.lastLoad.read = "unparsable" => es.lastLoad.outcome = "rejected"

(***************************************************************************)
(* C16: once every append to a store with a persistPath has returned, a    *)
(* new store that loads the file holds the events of the original store in *)
(* the same order, and deriveState gives the same state for both.          *)
(* Violated by an event with a value JSON cannot write (NaN).              *)
(***************************************************************************)
C16_ReplayReconstructs ==
    (/\ es.persistPath
     /\ es.appended # <<>>
     /\ es.returned = 1..Len(es.appended)
     /\ es.writes = <<>>)
        => /\ Reloaded(es.file).read = "parsed"
           /\ Reloaded(es.file).events = all(es)
           /\ deriveState(Reloaded(es.file).events) = deriveState(all(es))

C18_RetryUntilSuccessOrExhausted ==
    retry.config.maxAttempts >= 1 =>
        /\ retry.calls <= retry.config.maxAttempts
        /\ retry.pc = "returned" =>
              /\ retry.value = retry.calls
              /\ ~ENABLED RetryNext
        /\ (retry.pc \in {"running", "sleeping"} /\ retry.calls > 0) =>
              /\ retry.calls < retry.config.maxAttempts
              /\ retry.lastError.call = retry.calls
              /\ isRetryable(retry.lastError.message)
        /\ (retry.pc = "threw" /\ retry.thrown.kind = "error"
            /\ isRetryable(retry.thrown.message)) =>
              /\ retry.calls = retry.config.maxAttempts
              /\ retry.thrown.call = retry.calls
              /\ retry.sleeps = retry.config.maxAttempts - 1
              /\ ~ENABLED RetryNext

\* Three attempts failed with a timeout: the third error is thrown, after two
\* sleeps.
C18_Witness ==
    /\ retry.config.maxAttempts = 3
    /\ retry.pc = "threw"
    /\ retry.calls = 3
    /\ retry.sleeps = 2
    /\ retry.thrown.call = 3
    /\ retry.thrown.message.text = "timeout"

(***************************************************************************)
(* C19: when an attempt fails with an error that isRetryable rejects,      *)
(* withRetry throws that same error at once: it does not sleep and does    *)
(* not call fn again, however many attempts remain.                        *)
(***************************************************************************)
C19_NonRetryablePropagates ==
    [][(/\ retry'.calls = retry.calls + 1
        /\ retry'.lastError.kind = "error"
        /\ retry'.lastError.call = retry'.calls
        /\ ~isRetryable(retry'.lastError.message)) =>
            /\ retry'.pc = "threw"
            /\ retry'.thrown = retry'.lastError
            /\ retry'.sleeps = retry.sleeps
            /\ (~ENABLED RetryNext)']_vars

\* The second of three attempts fails with "econnreset", which the pattern
\* /ECONNRESET/ does not match: the error is thrown after one sleep.
C19_Witness ==
    /\ retry.config.maxAttempts = 3
    /\ retry.pc = "threw"
    /\ retry.calls = 2
    /\ retry.sleeps = 1
    /\ retry.thrown.call = 2
    /\ retry.thrown.message = [text |-> "ECONNRESET", sameCase |-> FALSE]

(***************************************************************************)
(* C20: the delay before jitter for attempt n (from 0) is                  *)
(* min(baseDelayMs * 2^n, maxDelayMs): for baseDelayMs = 1000 and          *)
(* maxDelayMs = 30000 it is 1000, 2000, 4000, 8000, 16000, 30000 for       *)
(* n = 0..5; it never decreases as n grows; and with no jitter it is the   *)
(* delay returned.                                                         *)
(***************************************************************************)
C20_BackoffDelays ==
    calc.called =>
        /\ calc.result.capped
               = Min(calc.config.baseDelayMs * 2^calc.attempt, calc.config.maxDelayMs)
        /\ (calc.config.baseDelayMs = 1000 /\ calc.config.maxDelayMs = 30000
            /\ calc.attempt <= 5) =>
               calc.result.capped
                   = <<1000, 2000, 4000, 8000, 16000, 30000>>[calc.attempt + 1]
        /\ calculateDelay(calc.attempt + 1, calc.config, calc.random).capped
               >= calc.result.capped
        /\ calc.config.jitterPercent = 0 => calc.result.delay = calc.result.capped

\* Attempt 5 with the default delays: 32000 is capped at 30000.
C20_Witness ==
    /\ calc.called
    /\ calc.attempt = 5
    /\ calc.config.baseDelayMs = 1000
    /\ calc.config.maxDelayMs = 30000
    /\ calc.result.exponential = 32000
    /\ calc.result.capped = 30000


(***************************************************************************)
(* C21: when an invoked guard returns allowed = true with override = true, *)
(* checkAllLayers stops at once: that guard is the last one invoked, the   *)
(* result is an approval that names it as the deciding layer, and no guard *)
(* of a greater layer number is invoked, even one that would have          *)
(* rejected the action.                                                    *)
(***************************************************************************)
Overriding ==
    { i \in 1..Len(layerOut.invoked) :
        /\ layerSet[layerOut.invoked[i]].check.allowed
        /\ layerSet[layerOut.invoked[i]].check.override }

C21_OverrideApproves ==
    layerOut.called =>
        \A i \in Overriding :
            /\ i = Len(layerOut.invoked)
            /\ layerOut.result.allowed
            /\ layerOut.result.decidingLayer = layerOut.invoked[i]
            /\ layerOut.result.reason = <<"none">>
            /\ \A k \in 1..Len(layerSet) :
                   layerSet[k].layer > InvokedLayers[i]
                   => \A j \in 1..Len(layerOut.invoked) : layerOut.invoked[j] # k

\* The guard of layer 0, supplied last, approves with override; the guard of
\* layer 1, supplied first, would have rejected and is never invoked.
C21_Witness ==
    /\ layerOut.called
    /\ Len(layerSet) = 2
    /\ layerSet[1].layer = 1
    /\ ~layerSet[1].check.allowed
    /\ layerSet[2].layer = 0
    /\ layerSet[2].check.allowed
    /\ layerSet[2].check.override
    /\ layerOut.invoked = <<2>>
    /\ layerOut.result.allowed
    /\ layerOut.result.decidingLayer = 2

(***************************************************************************)
(* C22: when every guard approves without override and at least one        *)
(* guard's result has requiresConfirmation = true, the result of the guard *)
(* pipeline is an approval that carries requiresConfirmation = true; when  *)
(* no guard rejects, overrides or asks for a confirmation (the empty guard *)
(* set included) the result is a plain allowed = true. Violated by         *)
(* checkAllLayers, whose approval never carries the flag.                  *)
(***************************************************************************)
\* result.requiresConfirmation as the caller reads it: an absent field is
\* undefined, which is falsy.
carriesConfirmation(result) ==
    "requiresConfirmation" \in DOMAIN result /\ result.requiresConfirmation

AllApprove ==
    \A k \in 1..Len(layerSet) :
        layerSet[k].check.allowed /\ ~layerSet[k].check.override
SomeAsksConfirmation ==
    \E k \in 1..Len(layerSet) : carriesConfirmation(layerSet[k].check)

C22_ConfirmationCarried ==
    (layerOut.called /\ AllApprove)
    => /\ layerOut.result.allowed
       /\ carriesConfirmation(layerOut.result) = SomeAsksConfirmation

(***************************************************************************)
(* C23: every malformed action, one whose type is missing or not a string  *)
(* or whose parameters value is not an object, is rejected by the          *)
(* structural-validation guard with allowed = false and a reason. Violated *)
(* by parameters of 0, '' or false, which isValidAction lets through.      *)
(***************************************************************************)
Malformed(action) ==
    \/ action.type \in {"missing", "nonstring"}
    \/ action.parameters \in {"string", "falsy"}

C23_MalformedRejected ==
    (guarded.calls > 0 /\ Malformed(guarded.action))
    => /\ ~isValidAction(guarded.action).allowed
       /\ isValidAction(guarded.action).reason # "none"

(***************************************************************************)
(* C24: runGuards rejects every action, whatever its type, parameters and  *)
(* the policy, whenever a budget ledger is exhausted: usedTokens >=        *)
(* maxTokens, or usedApiCalls >= maxApiCalls, or a maxTimeMs is set and    *)
(* the time since startTime is at least maxTimeMs; the rejection is the    *)
(* budget check's, which comes before validation and policy. Violated by   *)
(* a Budget whose startTime is 0 or unset: its time limit is never tested. *)
(***************************************************************************)
BudgetReasons ==
    {"Token budget exhausted", "API call budget exhausted", "Time budget exhausted"}

Exhausted(budget, t) ==
    \/ budget.usedTokens >= budget.maxTokens
    \/ budget.usedApiCalls >= budget.maxApiCalls
    \/ (budget.maxTimeMs # 0 /\ t - budget.startTime >= budget.maxTimeMs)

C24_ExhaustedBudgetRejects ==
    (guarded.calls > 0 /\ Exhausted(guarded.budget, guarded.at))
    => /\ ~guarded.result.allowed
       /\ guarded.result.reason \in BudgetReasons
       /\ guarded.outcome = "blocked"

(***************************************************************************)
(* What the pruneEphemeral calls did, read off prune.                      *)
(***************************************************************************)
Pruned == Len(prune.outs) >= 1
PrunedTwice == Len(prune.outs) >= 2
Elements(s) == { s[i] : i \in 1..Len(s) }
IsPermanent(m) == ~m.ephemeral
IsEphemeral(m) == m.ephemeral
Permanent(s) == SelectSeq(s, IsPermanent)
Ephemeral(s) == SelectSeq(s, IsEphemeral)
\* The age of a message at the call: current time minus timestamp.
Age(m) == prune.now - m.timestamp

(***************************************************************************)
(* C25 as stated: for every message list and every config, with the clock  *)
(* held, pruning the pruned list gives the pruned list again. Violated by  *)
(* a negative keepLast, with which every call drops one more message.      *)
(***************************************************************************)
C25_Idempotent == PrunedTwice => prune.outs[2] = prune.outs[1]

(***************************************************************************)
(* C25 amended: for every message list and every config whose keepLast is  *)
(* not negative, with the clock held, pruning the pruned list gives the    *)
(* pruned list again.                                                      *)
(***************************************************************************)
C25_IdempotentFromZero ==
    (PrunedTwice /\ prune.config.keepLast >= 0) => prune.outs[2] = prune.outs[1]

\* Three ephemeral messages, one too old, keepLast = 1: the first call drops
\* two of them and the second call returns the same list.
C25_Witness ==
    /\ PrunedTwice
    /\ prune.config = [keepLast |-> 1, maxAge |-> 2]
    /\ Len(prune.messages) = 3
    /\ \A i \in 1..3 : prune.messages[i].ephemeral /\ prune.messages[i].id = i
    /\ prune.messages[3].timestamp = 0
    /\ prune.messages[2].timestamp = 2
    /\ Len(prune.outs[1]) = 1
    /\ prune.outs[2] = prune.outs[1]


(***************************************************************************)
(* C26: the output of pruneEphemeral is a subsequence of its input: it     *)
(* holds every permanent message, holds no message the input does not      *)
(* hold, and keeps the retained messages, permanent and ephemeral, in the  *)
(* order they had in the input.                                            *)
(***************************************************************************)
\* a is b with some entries left out: the entries of a, in order, are matched
\* to entries of b from the front.
RECURSIVE IsSubsequence(_, _)
IsSubsequence(a, b) ==
    IF a = <<>> THEN TRUE
    ELSE IF b = <<>> THEN FALSE
    ELSE IF Head(a) = Head(b) THEN IsSubsequence(Tail(a), Tail(b))
    ELSE IsSubsequence(a, Tail(b))

C26_OutputIsSubsequence ==
    Pruned =>
        /\ IsSubsequence(prune.outs[1], prune.messages)
        /\ Permanent(prune.outs[1]) = Permanent(prune.messages)
        /\ Elements(prune.outs[1]) \subseteq Elements(prune.messages)

\* A permanent message between two ephemeral ones, then another permanent
\* one: keepLast = 1 drops the first ephemeral message only.
C26_Witness ==
    /\ Pruned
    /\ prune.config = [keepLast |-> 1, maxAge |-> 0]
    /\ Len(prune.messages) = 3
    /\ prune.messages[1].ephemeral
    /\ ~prune.messages[2].ephemeral
    /\ prune.messages[3].ephemeral
    /\ prune.messages[3].id = 3
    /\ prune.outs[1] = <<prune.messages[2], prune.messages[3]>>


(***************************************************************************)
(* C27: for every keepLast >= 0 (0 included), the output of pruneEphemeral *)
(* holds at most keepLast ephemeral messages, and they are the last        *)
(* keepLast, by position, of the ephemeral messages that passed the age    *)
(* filter. Violated by keepLast = 0, with which every ephemeral message    *)
(* that passed the age filter is kept.                                     *)
(***************************************************************************)
\* The ephemeral messages of the input that passed the age filter of the call.
PassedAgeFilter ==
    LET isRecent(m) == m.timestamp > prune.now - prune.config.maxAge
    IN  IF prune.config.maxAge # 0
        THEN SelectSeq(Ephemeral(prune.messages), isRecent)
        ELSE Ephemeral(prune.messages)

\* The last k entries of s (all of s when it has fewer).
Last(s, k) == IF k >= Len(s) THEN s ELSE SubSeq(s, Len(s) - k + 1, Len(s))

C27_AtMostKeepLast ==
    (Pruned /\ prune.config.keepLast >= 0)
    => /\ Len(Ephemeral(prune.outs[1])) <= prune.config.keepLast
       /\ Ephemeral(prune.outs[1]) = Last(PassedAgeFilter, prune.config.keepLast)


(***************************************************************************)
(* C28: when maxAge is configured, pruneEphemeral drops for age exactly    *)
(* the ephemeral messages whose age (current time minus timestamp) is      *)
(* greater than maxAge, and it does so before counting keepLast: the       *)
(* keepLast places go to the messages that are not too old; a permanent    *)
(* message is never dropped for age. Violated by an ephemeral message      *)
(* whose age equals maxAge, which is dropped too.                          *)
(***************************************************************************)
\* The ephemeral messages of the input whose age is not greater than maxAge.
NotTooOld ==
    LET young(m) == Age(m) <= prune.config.maxAge
    IN  SelectSeq(Ephemeral(prune.messages), young)

C28_DropsOlderThanMaxAge ==
    (Pruned /\ prune.config.maxAge # 0)
    => /\ \A m \in Elements(Ephemeral(prune.messages)) :
              Age(m) > prune.config.maxAge => m \notin Elements(prune.outs[1])
       /\ Elements(slice(NotTooOld, -prune.config.keepLast))
              \subseteq Elements(prune.outs[1])
       /\ Permanent(prune.outs[1]) = Permanent(prune.messages)


(***************************************************************************)
(* What the coordinator's workers have done, read off coord.               *)
(***************************************************************************)
Subtasks == 1..Len(coord.subtasks)
PhaseOf(i) == order(coord.subtasks[i])
Started(i) == coord.status[i] # "pending"
Finished(i) == coord.status[i] \in {"succeeded", "failed"}
FailedSubtasks == { i \in Subtasks : coord.status[i] = "failed" }

(***************************************************************************)
(* C29: Coordinator.delegate runs the phases one after another in the      *)
(* order analysis, implementation, review, test: no subtask of a later     *)
(* phase is started before every subtask of every earlier phase has        *)
(* produced its result, and the subtasks of one phase are all started      *)
(* before any of them has finished.                                        *)
(***************************************************************************)
C29_PhasesInOrder ==
    /\ \A i, j \in Subtasks : (PhaseOf(i) < PhaseOf(j) /\ Started(j)) => Finished(i)
    /\ \A i, j \in Subtasks : (PhaseOf(i) = PhaseOf(j) /\ Finished(i)) => Started(j)

\* Two reviews supplied around an analysis: the analysis has run first, and the
\* second review is still running when the first has its result.
C29_Witness ==
    /\ coord.subtasks = <<"review", "analysis", "review">>
    /\ coord.pc = "awaiting"
    /\ coord.phase = 2
    /\ coord.status = <<"succeeded", "succeeded", "running">>
    /\ Len(coord.results) = 1

(***************************************************************************)
(* C30: a failing subtask ends nothing but itself: its siblings keep       *)
(* running, every subtask of every later phase is still dispatched, and    *)
(* the aggregated CoordinatorResult has success = false exactly when a     *)
(* subtask failed, with one entry per subtask in subtaskResults, failed    *)
(* for the failed subtasks and only for them.                              *)
(***************************************************************************)
EntriesOf(i) ==
    { j \in 1..Len(coord.final.subtaskResults) : coord.final.subtaskResults[j].subtaskId = i }

C30_FailureDoesNotAbort ==
    /\ [](coord.final.made =>
            /\ \A i \in Subtasks : Finished(i)
            /\ Len(coord.final.subtaskResults) = Len(coord.subtasks)
            /\ \A i \in Subtasks :
                  /\ Cardinality(EntriesOf(i)) = 1
                  /\ \A j \in EntriesOf(i) :
                        coord.final.subtaskResults[j].success = (i \notin FailedSubtasks)
            /\ coord.final.success = (FailedSubtasks = {}))
    /\ [][\A i \in Subtasks :
             (coord.status[i] = "running" /\ coord'.status[i] = "failed")
             => /\ \A j \in Subtasks \ {i} : coord'.status[j] = coord.status[j]
                /\ coord'.pc = "awaiting"]_vars

\* Three subtasks in two phases; one of the first phase failed, its sibling and
\* the second phase ran, and the aggregate reports the one failure.
C30_Witness ==
    /\ coord.subtasks = <<"analysis", "analysis", "implementation">>
    /\ coord.final.made
    /\ coord.status = <<"failed", "succeeded", "succeeded">>
    /\ ~coord.final.success
    /\ coord.final.subtaskResults =
         << [subtaskId |-> 1, success |-> FALSE],
            [subtaskId |-> 2, success |-> TRUE],
            [subtaskId |-> 3, success |-> TRUE] >>


(***************************************************************************)
(* C31: aggregation is complete: for every list of subtasks, delegate      *)
(* returns exactly one WorkerResult per subtask, with that subtask's id    *)
(* and success telling whether its worker succeeded or failed; no subtask  *)
(* is dropped or reported twice, results are only ever added, and delegate *)
(* itself never fails because a worker failed.                             *)
(***************************************************************************)
ResultsOf(i) == { j \in 1..Len(coord.results) : coord.results[j].subtaskId = i }

C31_AggregationComplete ==
    /\ [](coord.pc # "threw")
    /\ [](\A i \in Subtasks : Cardinality(ResultsOf(i)) <= 1)
    /\ [](coord.pc \in {"returned", "aggregated"} =>
            /\ Len(coord.results) = Len(coord.subtasks)
            /\ \A i \in Subtasks :
                  /\ Cardinality(ResultsOf(i)) = 1
                  /\ \A j \in ResultsOf(i) :
                        coord.results[j].success = (coord.status[i] = "succeeded"))
    /\ [][\A j \in 1..Len(coord.results) :
             j <= Len(coord'.results) /\ coord'.results[j] = coord.results[j]]_vars

\* delegate has returned the results of three subtasks of one phase, the
\* first and the last of which failed.
C31_Witness ==
    /\ coord.pc = "returned"
    /\ coord.subtasks = <<"test", "test", "test">>
    /\ coord.results =
         << [subtaskId |-> 1, success |-> FALSE],
            [subtaskId |-> 2, success |-> TRUE],
            [subtaskId |-> 3, success |-> FALSE] >>


(***************************************************************************)
(* C32: aggregate returns success = true exactly when every WorkerResult   *)
(* it is given has success = true (also for no result at all), and its     *)
(* subtaskResults is the given list: the same entries in the same order,   *)
(* and the given list is left as it was.                                   *)
(***************************************************************************)
C32_AggregateSuccess ==
    [][(coord'.final.made /\ ~coord.final.made)
       => /\ coord'.final.success
               = (\A j \in 1..Len(coord.results) : coord.results[j].success)
          /\ coord'.final.subtaskResults = coord.results
          /\ coord'.results = coord.results]_vars

\* Two results that both succeeded: the aggregate succeeds and holds them.
C32_Witness ==
    /\ coord.final.made
    /\ coord.final.success
    /\ coord.subtasks = <<"implementation", "analysis">>
    /\ coord.final.subtaskResults =
         << [subtaskId |-> 2, success |-> TRUE], [subtaskId |-> 1, success |-> TRUE] >>


C34_OneWorkerPerSubtask ==
    \A i, j \in DOMAIN coord.worker :
        (i # j /\ coord.worker[i] # 0 /\ coord.worker[j] # 0)
            => coord.worker[i] # coord.worker[j]


\* The retry sequence is still going on, on a breaker that has opened.
OpenedMidSequence == breaker.state = "open" /\ retry.pc \in {"running", "sleeping"}
\* The next attempt of the sequence is made.
AttemptMade == retry'.calls = retry.calls + 1
\* The sequence ends with the circuit-open failure, fn not invoked.
StoppedByBreaker ==
    /\ cbHist'.fnCalls = cbHist.fnCalls
    /\ retry'.pc = "threw"
    /\ retry'.thrown.kind = "error"
    /\ retry'.thrown.message = CircuitOpenMessage
    /\ breaker' = breaker

\* C35 as stated: once the breaker has opened during the retry sequence, the
\* next attempt never invokes fn and ends the sequence with the circuit-open
\* failure.
C35_OpenBreakerStopsRetries ==
    [][ (OpenedMidSequence /\ AttemptMade) => StoppedByBreaker ]_vars

\* C35, amended: once the breaker has opened during the retry sequence, an
\* attempt made before openDurationMs has elapsed since the failure that
\* opened it does not invoke fn and ends the sequence with the circuit-open
\* failure; an attempt made when openDurationMs has elapsed (the backoff
\* delay was at least that long) is the half_open probe and invokes fn.
C35_OpenBreakerStopsRetriesUntilDue ==
    [][ (OpenedMidSequence /\ AttemptMade)
           => IF now - breaker.lastFailureTime < cbConfig.openDurationMs
              THEN StoppedByBreaker
              ELSE /\ cbHist'.fnCalls = cbHist.fnCalls + 1
                   /\ cbHist'.from = "open"
                   /\ retry'.thrown.message # CircuitOpenMessage ]_vars

\* C35 witness: the breaker opened at the first attempt, and the second
\* attempt, after the backoff delay, failed fast and ended a sequence that had
\* an attempt left.
C35_Witness ==
    /\ retry.config.maxAttempts = 3
    /\ retry.calls = 2
    /\ cbHist.fnCalls = 1
    /\ cbHist.last = "circuit_open"
    /\ breaker.state = "open"
    /\ retry.pc = "threw"
    /\ retry.thrown.message = CircuitOpenMessage


\* C36: the delay calculateDelay returns for withRetry to wait, jitter
\* applied, is never negative and never greater than maxDelayMs.
C36_DelayWithinCap ==
    calc.called =>
        (/\ calc.result.delay >= 0
         /\ calc.result.delay <= calc.config.maxDelayMs)


\* C37: in every reachable state of the breaker, with execute calls
\* overlapping each other and reset calls in any order, a closed breaker has
\* counted fewer failures than failureThreshold.
C37_ClosedBelowThreshold ==
    breaker.state = "closed" => breaker.failures < cbConfig.failureThreshold

\* C37 witness: after the breaker opened and was reset, a call that overlapped
\* another one failed and left the breaker closed one failure short of the
\* threshold, the other call still in flight.
C37_Witness ==
    /\ breaker.state = "closed"
    /\ cbConfig.failureThreshold >= 2
    /\ breaker.failures = cbConfig.failureThreshold - 1
    /\ cbHist.last = "failure"
    /\ cbHist.totalFails > cbConfig.failureThreshold
    /\ inflight = 1


\* C38: while the breaker stays open, the instant it becomes eligible for
\* half_open, lastFailureTime + openDurationMs, does not move: a call that was
\* in flight when the breaker opened and fails afterwards leaves
\* lastFailureTime as it was.
C38_OpenPeriodFixed ==
    [][ (breaker.state = "open" /\ breaker'.state = "open")
           => (breaker'.lastFailureTime + cbConfig'.openDurationMs
                  = breaker.lastFailureTime + cbConfig.openDurationMs) ]_vars


\* C39: with a persistPath and no load() made, once every append call,
\* overlapping or not, has returned and no write is in flight, the file ends
\* with the line of every appended event, in the order of all(): no earlier
\* write has left a shorter log.
C39_OverlappingAppendsPersisted ==
    (/\ es.persistPath
     /\ es.lastLoad.outcome = "none"
     /\ es.appended # <<>>
     /\ es.returned = 1..Len(es.appended)
     /\ es.writes = <<>>)
        => (/\ es.file.exists
            /\ all(es) = es.appended
            /\ IsSuffix(serialize(all(es)), es.file.lines))


\* C40: in agentWithExplicitTermination, whatever the caller's tool list, a
\* call of the tool named 'done' ends the loop with the result of that call
\* (args.result, or 'Failed: ' and args.result), and the calls that follow it
\* in the response are not executed.
C40_DoneCallTerminates ==
    [][ (/\ run.variant = "agentWithExplicitTermination"
         /\ run.pc = "running"
         /\ run'.doneSignals = run.doneSignals + 1)
           => (/\ run'.pc = "returned"
               /\ run'.pending = 0
               /\ run'.result \in {<<"args.result">>, <<"Failed: args.result">>}) ]_vars


==========================================================================
